---- MODULE Spec2Model ----
(***************************************************************************)
(* State-machine model of the mini-game-pack engine: the entity/component  *)
(* runtime, the collision system, the event buses, the scene manager and   *)
(* the scenes registered by main.py.                                       *)
(*                                                                         *)
(* The whole program state is gathered in one record (World) so that a     *)
(* handler, with every call it makes, is a pure operator from world to     *)
(* world; an action applies one handler and stores the resulting world.    *)
(* The statements of a handler are written as local operators on the world *)
(* they receive (v), composed in the order the code runs them.             *)
(***************************************************************************)
EXTENDS Integers, Sequences, FiniteSets, TLC

VARIABLES
    entities,           \* Engine.entities (list of entity handles)
    ent,                \* entity handle -> the Entity object's fields
    colliders,          \* CollisionSystem.colliders (list of collider handles)
    col,                \* collider handle -> the BoxCollider object's fields
    bus,                \* Events: bus name -> EventBus._listeners
    scenes,             \* SceneManager._scenes: name -> scene object
    active_scene,       \* SceneManager.active_scene
    active_scene_name,  \* SceneManager.active_scene_name
    scn,                \* scene object -> its fields
    running,            \* Engine.running
    last_tick,          \* Engine.last_tick
    pc,                 \* main.py: "setup", then "loop" (Engine.start), then "done"
    held,               \* entity handles the caller still refers to
    op,                 \* the operation performed by the last step
    calls,              \* lifecycle calls made during the last step, in order
    emitted,            \* collision events emitted by the last step, in order
    switches,           \* number of scene switches performed so far
    made,               \* scene object -> the entities its last load() created
    trace,              \* what the last step's calls did, in order: the
                        \* invocations of the caller's listeners and the two
                        \* halves of Scene.unload
    raised,             \* the exception the last step's call ended with
    subs                \* (bus, caller's listener) -> subscribe calls minus
                        \* unsubscribe calls the caller made for it there

vars == <<entities, ent, colliders, col, bus, scenes, active_scene,
          active_scene_name, scn, running, last_tick, pc, held, op, calls,
          emitted,
          switches, made, trace, raised, subs>>

-----------------------------------------------------------------------------
(* Bounds of the model *)

MaxEntities == 3     \* entities created through the entity API
MaxSwitches == 3     \* scene switches in one run of main.py
MaxApiSwitches == 2  \* scene switches a client makes before the loop
MaxChoices == 2      \* outcomes considered for one random draw
GridWidth == 8       \* SnakeScene(grid_width=...)
GridHeight == 1      \* SnakeScene(grid_height=...)

-----------------------------------------------------------------------------
(* Python lists *)

Range(s) == {s[i] : i \in 1..Len(s)}

In(x, s) == \E i \in 1..Len(s) : s[i] = x

\* list.remove(x): drops the first element equal to x
ListRemove(s, x) ==
    LET i == CHOOSE k \in 1..Len(s) : s[k] = x /\ \A j \in 1..(k-1) : s[j] # x
    IN  SubSeq(s, 1, i-1) \o SubSeq(s, i+1, Len(s))

\* Python's None, for fields that otherwise hold a handle (handles are >= 1)
None == 0

NoScene == "None"

\* no exception
NoError == "None"

-----------------------------------------------------------------------------
(* The world *)

World ==
    [entities |-> entities, ent |-> ent, colliders |-> colliders, col |-> col,
     bus |-> bus, scenes |-> scenes, active_scene |-> active_scene,
     active_scene_name |-> active_scene_name, scn |-> scn,
     running |-> running, last_tick |-> last_tick, pc |-> pc, held |-> held,
     switches |-> switches,
     made |-> made, subs |-> subs,
     calls |-> <<>>, emitted |-> <<>>, trace |-> <<>>, raised |-> NoError,
     rand |-> <<>>, starved |-> FALSE, ask |-> {}, queue |-> <<>>]

\* the world about to run a handler whose random draws will be r
WithRand(r) == [World EXCEPT !.rand = r]

Store(w, o) ==
    /\ entities' = w.entities
    /\ ent' = w.ent
    /\ colliders' = w.colliders
    /\ col' = w.col
    /\ bus' = w.bus
    /\ scenes' = w.scenes
    /\ active_scene' = w.active_scene
    /\ active_scene_name' = w.active_scene_name
    /\ scn' = w.scn
    /\ running' = w.running
    /\ last_tick' = w.last_tick
    /\ pc' = w.pc
    /\ made' = w.made
    /\ held' = w.held
    /\ op' = o
    /\ calls' = w.calls
    /\ emitted' = w.emitted
    /\ switches' = w.switches
    /\ trace' = w.trace
    /\ raised' = w.raised
    /\ subs' = w.subs

-----------------------------------------------------------------------------
(* Components *)

DrawDepth == [BACKGROUND |-> 0, TERRAIN |-> 1, OBJECT |-> 2, UI |-> 3, DEFAULT |-> 4]

Transform(x, y) == [x |-> x, y |-> y]

Render(texture, draw_depth) ==
    [visible |-> TRUE, texture |-> texture, draw_depth |-> draw_depth]

HasTransform(w, e) == "Transform" \in DOMAIN w.ent[e].components

-----------------------------------------------------------------------------------------------------------------------------------------------------
(* CollisionSystem registry *)

\* a registry that appends without looking
register_collider_again(w, c) == [w EXCEPT !.colliders = Append(@, c)]

register_collider(w, c) ==
    IF ~In(c, w.colliders) THEN [w EXCEPT !.colliders = Append(@, c)] ELSE w

unregister_collider(w, c) ==
    IF In(c, w.colliders) THEN [w EXCEPT !.colliders = ListRemove(@, c)] ELSE w

-----------------------------------------------------------------------------
(* Entity *)

set_active(w, e, active) ==
    IF w.starved THEN w ELSE
    LET assign(v) == [v EXCEPT !.ent[e].active = active]
        sync(v) ==
            IF v.ent[e].collider # None /\ v.ent[e].collision_system
            THEN IF v.ent[e].active
                 THEN register_collider(v, v.ent[e].collider)
                 ELSE unregister_collider(v, v.ent[e].collider)
            ELSE v
    IN  sync(assign(w))

\* an insert that leaves a component of the same kind in place
insert_component_keeping(w, e, kind, component) ==
    [w EXCEPT !.ent[e].components =
        [k \in DOMAIN @ \cup {kind} |-> IF k \in DOMAIN @ THEN @[k] ELSE component]]

\* self.components[kind] = component: the dict has one value per key
insert_component(w, e, kind, component) ==
    [w EXCEPT !.ent[e].components =
        [k \in DOMAIN @ \cup {kind} |-> IF k = kind THEN component ELSE @[k]]]

\* Entity.__init__: a fresh handle h with the two components, active, no collider
Entity_init(w, h, transform, render, collision_system) ==
    IF w.starved THEN w ELSE
    LET obj == [components |-> [Transform |-> transform, Render |-> render],
                active |-> TRUE, collider |-> None,
                collision_system |-> collision_system]
    IN  set_active([w EXCEPT !.ent = [x \in DOMAIN w.ent \cup {h} |->
                                         IF x = h THEN obj ELSE w.ent[x]]],
                   h, TRUE)

\* the collider property's setter
set_collider(w, e, new_collider) ==
    IF w.starved THEN w ELSE
    LET drop(v) ==
            IF v.ent[e].collider # None /\ v.ent[e].collision_system
            THEN unregister_collider(v, v.ent[e].collider) ELSE v
        assign(v) == [v EXCEPT !.ent[e].collider = new_collider]
        add(v) ==
            IF v.ent[e].collider # None /\ v.ent[e].collision_system /\ v.ent[e].active
            THEN register_collider(v, v.ent[e].collider) ELSE v
    IN  add(assign(drop(w)))

\* BoxCollider.__init__: a fresh collider handle c owned by parent
BoxCollider_init(w, c, parent, width, height) ==
    [w EXCEPT !.col = [x \in DOMAIN w.col \cup {c} |->
                          IF x = c THEN [parent |-> parent, width |-> width,
                                         height |-> height]
                          ELSE w.col[x]]]

\* the smallest unused handle (a new object's identity)
NewHandle(used) ==
    CHOOSE h \in 1..(Cardinality(used) + 1) :
        h \notin used /\ \A k \in 1..(h-1) : k \in used

\* the handle of the entity the next constructor call on w will make
Fresh(w) == NewHandle(DOMAIN w.ent)

-----------------------------------------------------------------------------
(* EventBus.  A listener is a bound method <<object, method>>; Call        *)
(* dispatches on it and is defined after the handlers.                     *)

RECURSIVE Call(_, _, _)
RECURSIVE EmitFrom(_, _, _, _)

subscribe(w, b, listener) ==
    IF w.starved THEN w ELSE [w EXCEPT !.bus[b] = Append(@, listener)]

\* list.remove raises ValueError when the listener is absent
CanUnsubscribe(w, b, listener) == In(listener, w.bus[b])

\* a variant that removes every occurrence of the listener
unsubscribe_every(w, b, listener) ==
    LET Other(l) == l # listener
    IN  [w EXCEPT !.bus[b] = SelectSeq(@, Other)]

unsubscribe(w, b, listener) ==
    IF CanUnsubscribe(w, b, listener)
    THEN [w EXCEPT !.bus[b] = ListRemove(@, listener)]
    ELSE [w EXCEPT !.raised = "ValueError"]

\* the callables a caller of the engine subscribes: each one records that it
\* was invoked, and with what
Listeners == {<<"Caller", "f">>, <<"Caller", "g">>}

\* the buses a caller uses for them: no part of the engine listens there
CallerBuses == {"key_up", "key_pressed"}

\* what a call did or returned, noted for the step's trace
Observe(w, o, who, args) ==
    [w EXCEPT !.trace = Append(@, [op |-> o, who |-> who, args |-> args])]

Heard(w, listener, args) == Observe(w, "listener", listener, args)

\* emit() without keyword arguments
NoArgs == <<>>

\* a bus that invokes its listeners from the second one on
emit_late(w, b, args) ==
    IF w.starved THEN w ELSE EmitFrom(Observe(w, "emit", b, args), b, 2, args)

\* emit: the for loop reads the live list by index; the call is noted
emit(w, b, args) ==
    IF w.starved THEN w ELSE EmitFrom(Observe(w, "emit", b, args), b, 1, args)

-----------------------------------------------------------------------------
(* BoxCollider.intersects *)

\* boxes without extent: two colliders meet only where their parents stand on
\* the same point
intersects_points(w, self, other) ==
    LET sp == w.col[self].parent
        opp == w.col[other].parent
    IN  /\ HasTransform(w, sp)
        /\ HasTransform(w, opp)
        /\ w.ent[sp].components.Transform = w.ent[opp].components.Transform

\* boxes that also meet where they only touch
intersects_closed(w, self, other) ==
    LET sp == w.col[self].parent
        opp == w.col[other].parent
    IN  IF ~HasTransform(w, sp) \/ ~HasTransform(w, opp) THEN FALSE
        ELSE
        LET st == w.ent[sp].components.Transform
            ot == w.ent[opp].components.Transform
        IN  /\ st.x <= ot.x + w.col[other].width
            /\ st.x + w.col[self].width >= ot.x
            /\ st.y <= ot.y + w.col[other].height
            /\ st.y + w.col[self].height >= ot.y

\* a test of the two sides that look from self only
intersects_one_sided(w, self, other) ==
    LET sp == w.col[self].parent
        opp == w.col[other].parent
    IN  IF ~HasTransform(w, sp) \/ ~HasTransform(w, opp) THEN FALSE
        ELSE
        LET st == w.ent[sp].components.Transform
            ot == w.ent[opp].components.Transform
        IN  /\ st.x < ot.x + w.col[other].width
            /\ st.y < ot.y + w.col[other].height

\* a test that takes a parent without a Transform to stand at the origin
intersects_at_origin(w, self, other) ==
    LET sp == w.col[self].parent
        opp == w.col[other].parent
        st == IF HasTransform(w, sp) THEN w.ent[sp].components.Transform
              ELSE Transform(0, 0)
        ot == IF HasTransform(w, opp) THEN w.ent[opp].components.Transform
              ELSE Transform(0, 0)
    IN  /\ st.x < ot.x + w.col[other].width
        /\ st.x + w.col[self].width > ot.x
        /\ st.y < ot.y + w.col[other].height
        /\ st.y + w.col[self].height > ot.y

intersects(w, self, other) ==
    LET sp == w.col[self].parent
        opp == w.col[other].parent
    IN  IF ~HasTransform(w, sp) \/ ~HasTransform(w, opp) THEN FALSE
        ELSE
        LET st == w.ent[sp].components.Transform
            ot == w.ent[opp].components.Transform
            self_left == st.x
            self_top == st.y
            self_right == st.x + w.col[self].width
            self_bottom == st.y + w.col[self].height
            other_left == ot.x
            other_top == ot.y
            other_right == ot.x + w.col[other].width
            other_bottom == ot.y + w.col[other].height
        IN  /\ self_left < other_right
            /\ self_right > other_left
            /\ self_top < other_bottom
            /\ self_bottom > other_top

-----------------------------------------------------------------------------
(* CollisionSystem.update *)

\* a filter that does not look at the active flag
Collidable_any_state(w, e) ==
    /\ w.ent[e].collider # None
    /\ HasTransform(w, e)

\* the filter of the list comprehension
Collidable(w, e) ==
    /\ w.ent[e].active
    /\ w.ent[e].collider # None
    /\ HasTransform(w, e)

RECURSIVE Filter(_, _, _)
Filter(w, s, i) ==
    IF i > Len(s) THEN <<>>
    ELSE (IF Collidable(w, s[i]) THEN <<s[i]>> ELSE <<>>) \o Filter(w, s, i + 1)

\* the body of the double loop for the pair (i, j): test, then emit.  The
\* colliders are read when the pair is reached: None has no intersects and
\* no parent, so the call raises AttributeError if either is None by then
SweepPair(w, ce, i, j) ==
    IF w.starved THEN w ELSE
    LET ev == [entity_a |-> ce[i], entity_b |-> ce[j],
               collider_a |-> w.ent[ce[i]].collider,
               collider_b |-> w.ent[ce[j]].collider]
    IN  IF ev.collider_a = None \/ ev.collider_b = None
        THEN [w EXCEPT !.raised = "AttributeError"]
        ELSE IF intersects(w, ev.collider_a, ev.collider_b)
        THEN emit([w EXCEPT !.emitted = Append(@, ev)], "collusion", ev)
        ELSE w

\* for i in range(n): for j in range(i + 1, n); an exception ends the loops
RECURSIVE Sweep(_, _, _, _)
Sweep(w, ce, i, j) ==
    IF w.starved THEN w ELSE
    IF w.raised # NoError THEN w ELSE
    IF i > Len(ce) THEN w
    ELSE IF j > Len(ce) THEN Sweep(w, ce, i + 1, i + 2)
    ELSE Sweep(SweepPair(w, ce, i, j), ce, i, j + 1)

\* a sweep whose first row starts one entity late
CollisionSystem_update_late(w) ==
    IF w.starved THEN w ELSE Sweep(w, Filter(w, w.entities, 1), 1, 3)

\* a sweep that remembers: a pair the previous update reported is not
\* reported again
CollisionSystem_update_entering(w) ==
    IF w.starved THEN w ELSE
    LET NotReported(ev) == ~In(ev, emitted)
        forget(v) == [v EXCEPT !.emitted = SelectSeq(@, NotReported)]
    IN  forget(Sweep(w, Filter(w, w.entities, 1), 1, 2))

CollisionSystem_update(w) ==
    IF w.starved THEN w ELSE Sweep(w, Filter(w, w.entities, 1), 1, 2)

-----------------------------------------------------------------------------
(* RenderSystem.update *)

\* a test that looks neither at the active flag nor at visible
Drawable_any_state(w, e) ==
    /\ HasTransform(w, e)
    /\ "Render" \in DOMAIN w.ent[e].components
    /\ w.ent[e].components.Render.texture # "None"

\* the test of the first loop
Drawable(w, e) ==
    /\ w.ent[e].active
    /\ HasTransform(w, e)
    /\ "Render" \in DOMAIN w.ent[e].components
    /\ w.ent[e].components.Render.visible
    /\ w.ent[e].components.Render.texture # "None"

RECURSIVE DrawableFrom(_, _, _)
DrawableFrom(w, s, i) ==
    IF i > Len(s) THEN <<>>
    ELSE (IF Drawable(w, s[i]) THEN <<s[i]>> ELSE <<>>) \o DrawableFrom(w, s, i + 1)

\* key=lambda e: e.components[Render].draw_depth.value
SortKey(w, e) == w.ent[e].components.Render.draw_depth

\* a sort that puts an entity before those of equal depth
RECURSIVE InsertFirst(_, _, _)
InsertFirst(w, q, e) ==
    IF q = <<>> THEN <<e>>
    ELSE IF SortKey(w, q[Len(q)]) < SortKey(w, e) THEN Append(q, e)
    ELSE Append(InsertFirst(w, SubSeq(q, 1, Len(q) - 1), e), q[Len(q)])

\* list.sort is stable: e goes behind every entity whose key is not greater
RECURSIVE Insert(_, _, _)
Insert(w, q, e) ==
    IF q = <<>> THEN <<e>>
    ELSE IF SortKey(w, q[Len(q)]) <= SortKey(w, e) THEN Append(q, e)
    ELSE Append(Insert(w, SubSeq(q, 1, Len(q) - 1), e), q[Len(q)])

RECURSIVE SortFrom(_, _, _, _)
SortFrom(w, s, i, sorted) ==
    IF i > Len(s) THEN sorted
    ELSE SortFrom(w, s, i + 1, Insert(w, sorted, s[i]))

\* self.screen_surface.blit(render_comp.texture, position), noted
RECURSIVE BlitFrom(_, _, _)
BlitFrom(w, s, i) ==
    IF i > Len(s) THEN w
    ELSE BlitFrom(Observe(w, "blit", <<s[i]>>,
                          [texture |-> w.ent[s[i]].components.Render.texture,
                           position |-> <<w.ent[s[i]].components.Transform.x,
                                          w.ent[s[i]].components.Transform.y>>]),
                  s, i + 1)

RenderSystem_update(w) ==
    IF w.starved THEN w ELSE
    BlitFrom(w, SortFrom(w, DrawableFrom(w, w.entities, 1), 1, <<>>), 1)

-----------------------------------------------------------------------------
(* Engine.new_entity *)

new_entity(w, transform, render) ==
    IF w.starved THEN w ELSE
    LET list(v) == [v EXCEPT !.entities = Append(@, Fresh(w))]
    IN  list(Entity_init(w, Fresh(w), transform, render, TRUE))

-----------------------------------------------------------------------------
(* Scene: the tracking helpers of the base class *)

\* an add_entity that appends without looking
add_entity_again(w, s, e) ==
    IF w.starved THEN w ELSE [w EXCEPT !.scn[s]._entities = Append(@, e)]

add_entity(w, s, e) ==
    IF w.starved THEN w ELSE
    IF ~In(e, w.scn[s]._entities)
    THEN [w EXCEPT !.scn[s]._entities = Append(@, e)]
    ELSE w

\* an object that is not an Entity: a GameObject, a (suit, rank) tuple
NotAnEntity == None

\* what create_entity is given as entity_class: the class Entity with its
\* keyword arguments, the bound method engine.new_entity, a callable that
\* returns an entity made before, or the class GameObject.
\* entity_class(*args, **kwargs): the world once it has returned
Constructed(w, factory) ==
    CASE factory.kind = "Entity" ->
             Entity_init(w, Fresh(w), factory.transform, factory.render,
                         factory.collision_system)
      [] factory.kind = "new_entity" ->
             new_entity(w, Transform(0, 0), Render("None", DrawDepth.DEFAULT))
      [] OTHER -> w

\* and the object it returned
Instance(w, factory) ==
    CASE factory.kind \in {"Entity", "new_entity"} -> Fresh(w)
      [] factory.kind = "existing" -> factory.entity
      [] OTHER -> NotAnEntity

\* a create_entity that appends to engine.entities without looking
create_entity_listing_again(w, s, factory) ==
    IF w.starved THEN w ELSE
    LET entity_instance == Instance(w, factory)
        list(v) == [v EXCEPT !.entities = Append(@, entity_instance)]
    IN  IF entity_instance = NotAnEntity
        THEN [Constructed(w, factory) EXCEPT !.raised = "TypeError"]
        ELSE add_entity(list(Constructed(w, factory)), s, entity_instance)

\* Scene.create_entity(entity_class, *args, **kwargs)
create_entity_from(w, s, factory) ==
    IF w.starved THEN w ELSE
    LET entity_instance == Instance(w, factory)
        list(v) == IF ~In(entity_instance, v.entities)
                   THEN [v EXCEPT !.entities = Append(@, entity_instance)]
                   ELSE v
    IN  IF entity_instance = NotAnEntity
        THEN [Constructed(w, factory) EXCEPT !.raised = "TypeError"]
        ELSE add_entity(list(Constructed(w, factory)), s, entity_instance)

\* create_entity(Entity, transform=, render=, events=[, collision_system=]),
\* as the scenes call it: the constructor makes the object, then the scene
\* lists and tracks it
create_entity(w, s, transform, render, collision_system) ==
    IF w.starved THEN w ELSE
    LET list(v) == IF ~In(Fresh(w), v.entities)
                   THEN [v EXCEPT !.entities = Append(@, Fresh(w))] ELSE v
    IN  add_entity(list(Entity_init(w, Fresh(w), transform, render,
                                    collision_system)),
                   s, Fresh(w))

\* what destroy_entity can see of e between its two calls: set_active(False)
\* has returned and engine.entities.remove(e) has not been called yet
Deactivated(w, e) ==
    IF w.starved THEN w ELSE
    [w EXCEPT !.trace = Append(@, [op |-> "deactivated", who |-> <<e>>,
        args |-> [listed |-> In(e, w.entities), active |-> w.ent[e].active,
                  registered |-> In(w.ent[e].collider, w.colliders)]])]

\* a destroy_entity that takes the entity off the engine's list as it is
destroy_entity_still_active(w, s, e) ==
    IF w.starved THEN w ELSE
    LET untrack(v) == IF In(e, v.scn[s]._entities)
                      THEN [v EXCEPT !.scn[s]._entities = ListRemove(@, e)] ELSE v
        unlist(v) == [v EXCEPT !.entities = ListRemove(@, e)]
        remove(v) == IF In(e, v.entities) THEN unlist(v) ELSE v
    IN  remove(untrack(w))

destroy_entity(w, s, e) ==
    IF w.starved THEN w ELSE
    LET untrack(v) == IF In(e, v.scn[s]._entities)
                      THEN [v EXCEPT !.scn[s]._entities = ListRemove(@, e)] ELSE v
        unlist(v) == [v EXCEPT !.entities = ListRemove(@, e)]
        remove(v) == IF In(e, v.entities)
                     THEN unlist(Deactivated(set_active(v, e, FALSE), e))
                     ELSE v
    IN  remove(untrack(w))

-----------------------------------------------------------------------------
(* Randomness (random.shuffle, random.choice): a handler takes its draws   *)
(* from w.rand; when it runs dry it records the set it wanted to draw from *)
(* so that the step can be retried with every possible next draw.  A run   *)
(* that went dry is abandoned: the operations on the world leave a starved *)
(* world as it is.                                                         *)

\* the outcomes of a draw from S that are explored
Choices(S) ==
    IF Cardinality(S) <= MaxChoices THEN S
    ELSE CHOOSE T \in SUBSET S : Cardinality(T) = MaxChoices

Dry(w) == w.rand = <<>>

Starve(w, S) == [w EXCEPT !.starved = TRUE, !.ask = Choices(S)]

\* the value drawn, and the world once it is drawn
Drawn(w) == Head(w.rand)

Consume(w) == [w EXCEPT !.rand = Tail(@)]

-----------------------------------------------------------------------------
(* Scene: subscriptions and teardown of the base class *)

Tracked(w, s) == Len(w.scn[s]._entities) + Len(w.scn[s]._listeners)

\* what a lifecycle call can observe of the engine at the moment it is logged
Snap(w) ==
    [active_scene |-> w.active_scene, active_scene_name |-> w.active_scene_name,
     entities |-> w.entities, bus |-> w.bus, registered |-> DOMAIN w.scenes,
     tracked |-> [s \in DOMAIN w.scn |-> Tracked(w, s)], made |-> w.made]

Log(w, o, s) ==
    IF w.starved THEN w ELSE
    [w EXCEPT !.calls = Append(@, [op |-> o, scene |-> s, snap |-> Snap(w)])]

\* a Scene.subscribe that forgets to track the listener
Scene_subscribe_untracked(w, s, b, listener) ==
    IF w.starved THEN w ELSE subscribe(w, b, listener)

Scene_subscribe(w, s, b, listener) ==
    IF w.starved THEN w ELSE
    LET track(v) == [v EXCEPT !.scn[s]._listeners = Append(@, <<b, listener>>)]
    IN  track(subscribe(w, b, listener))

\* Scene.unsubscribe: the exception of EventBus.unsubscribe passes through it
Scene_unsubscribe(w, s, b, listener) ==
    IF w.starved THEN w ELSE
    LET untrack(v) ==
            IF v.raised # NoError THEN v
            ELSE IF In(<<b, listener>>, v.scn[s]._listeners)
            THEN [v EXCEPT !.scn[s]._listeners = ListRemove(@, <<b, listener>>)]
            ELSE v
    IN  untrack(unsubscribe(w, b, listener))

\* the loop of unsubscribe_all over self._listeners; a ValueError raised by
\* EventBus.unsubscribe is caught and the loop goes on
RECURSIVE UnsubscribeFrom(_, _, _)
UnsubscribeFrom(w, ls, i) ==
    IF w.starved THEN w ELSE
    IF i > Len(ls) THEN w
    ELSE UnsubscribeFrom(IF CanUnsubscribe(w, ls[i][1], ls[i][2])
                         THEN unsubscribe(w, ls[i][1], ls[i][2]) ELSE w,
                         ls, i + 1)

\* an unsubscribe_all that forgets the pairs and leaves them on the buses
unsubscribe_all_tracking_only(w, s) ==
    IF w.starved THEN w ELSE [w EXCEPT !.scn[s]._listeners = <<>>]

unsubscribe_all(w, s) ==
    IF w.starved THEN w ELSE
    LET clear(v) == [v EXCEPT !.scn[s]._listeners = <<>>]
    IN  clear(UnsubscribeFrom(w, w.scn[s]._listeners, 1))

\* for entity in lst: self.destroy_entity(entity)
RECURSIVE DestroyEach(_, _, _, _)
DestroyEach(w, s, lst, i) ==
    IF w.starved THEN w ELSE
    IF i > Len(lst) THEN w
    ELSE DestroyEach(destroy_entity(w, s, lst[i]), s, lst, i + 1)

destroy_all_entities(w, s) ==
    IF w.starved THEN w ELSE
    LET clear(v) == [v EXCEPT !.scn[s]._entities = <<>>]
    IN  clear(DestroyEach(w, s, w.scn[s]._entities, 1))

\* what scene s tracks, and the buses, when a part of unload has returned
Note(w, o, s) ==
    IF w.starved THEN w ELSE
    [w EXCEPT !.trace = Append(@, [op |-> o, who |-> s,
                                   args |-> [listeners |-> w.scn[s]._listeners,
                                             entities |-> w.scn[s]._entities,
                                             engine |-> w.entities,
                                             bus |-> w.bus]])]

\* an unload that destroys the entities before it unsubscribes
Scene_unload_entities_first(w, s) ==
    Note(unsubscribe_all(Note(destroy_all_entities(Note(w, "unload", s), s),
                              "destroy_all_entities", s), s),
         "unsubscribe_all", s)

\* Scene.unload: the state is noted at its entry and after each of its calls
Scene_unload(w, s) ==
    Note(destroy_all_entities(Note(unsubscribe_all(Note(w, "unload", s), s),
                                   "unsubscribe_all", s), s),
         "destroy_all_entities", s)

\* self.<field> = self.create_entity(TextEntity, ..., x=, y=, depth=):
\* TextEntity.__init__ builds the two components, calls Entity.__init__ without
\* a collision system and renders its text into the texture
create_text(w, s, x, y, field) ==
    IF w.starved THEN w ELSE
    LET assign(v) == [v EXCEPT !.scn[s][field] = Fresh(w)]
    IN  assign(create_entity(w, s, Transform(x, y), Render("text", DrawDepth.UI),
                             FALSE))

\* self.<field>.append(self.create_entity(TextEntity, ...))
append_text(w, s, x, y, field) ==
    IF w.starved THEN w ELSE
    LET append(v) == [v EXCEPT !.scn[s][field] = Append(@, Fresh(w))]
    IN  append(create_entity(w, s, Transform(x, y), Render("text", DrawDepth.UI),
                             FALSE))

-----------------------------------------------------------------------------
(* The scene objects made by main.py, and CreditsScene *)

MM == "MainMenuScene"
SN == "SnakeScene"
BJ == "BlackjackScene"
PH == "PlaceholderScene"
CR == "CreditsScene"

SceneObjects == {MM, SN, BJ, PH, CR}

-----------------------------------------------------------------------------
(* MainMenuScene.load *)

MENU_OPTIONS == <<"Snake", "Blackjack", "Roadrunner", "Credits", "Quit">>

\* for i, option in enumerate(self.menu_options): one TextEntity per option.
\* (x is centred on the rendered text's width, which the font decides.)
RECURSIVE MenuItems(_, _)
MenuItems(w, i) ==
    IF w.starved THEN w ELSE
    IF i >= Len(MENU_OPTIONS) THEN w
    ELSE MenuItems(append_text(w, MM, 0, 200 + i * 60, "menu_entities"), i + 1)

MainMenu_load(w) ==
    IF w.starved THEN w ELSE
    LET reset(v) == [v EXCEPT !.scn[MM].menu_entities = <<>>,
                              !.scn[MM].selected_index = 0]
        keys(v) == Scene_subscribe(v, MM, "key_down", <<MM, "handle_input">>)
        mouse(v) == Scene_subscribe(v, MM, "mouse_button_down",
                                    <<MM, "handle_mouse_click">>)
    IN  mouse(keys(MenuItems(reset(create_text(w, MM, 0, 100, "title")), 0)))

-----------------------------------------------------------------------------
(* PlaceholderScene.load (main.py) *)

Placeholder_load(w) ==
    IF w.starved THEN w ELSE
    Scene_subscribe(
        create_text(create_text(w, PH, 0, 250, "title"), PH, 0, 350, "instructions"),
        PH, "key_down", <<PH, "handle_input">>)

-----------------------------------------------------------------------------
(* CreditsScene.load *)

\* the add_centered_line calls of load, in order: y position and whether a
\* url is attached to the entity
CREDIT_LINES ==
    << [y |-> 50,  url |-> FALSE], [y |-> 110, url |-> FALSE],
       [y |-> 135, url |-> FALSE], [y |-> 155, url |-> TRUE],
       [y |-> 195, url |-> FALSE], [y |-> 215, url |-> TRUE],
       [y |-> 255, url |-> FALSE], [y |-> 280, url |-> FALSE],
       [y |-> 300, url |-> TRUE],  [y |-> 340, url |-> FALSE],
       [y |-> 365, url |-> FALSE], [y |-> 390, url |-> TRUE],
       [y |-> 430, url |-> FALSE], [y |-> 455, url |-> TRUE],
       [y |-> 520, url |-> FALSE] >>

RECURSIVE CreditLines(_, _)
CreditLines(w, i) ==
    IF w.starved THEN w ELSE
    IF i > Len(CREDIT_LINES) THEN w
    ELSE CreditLines(append_text(w, CR, 0, CREDIT_LINES[i].y, "text_entities"),
                     i + 1)

Credits_load(w) ==
    IF w.starved THEN w ELSE
    LET keys(v) == Scene_subscribe(v, CR, "key_down", <<CR, "handle_input">>)
        mouse(v) == Scene_subscribe(v, CR, "mouse_button_down",
                                    <<CR, "handle_mouse_click">>)
    IN  mouse(keys(CreditLines([w EXCEPT !.scn[CR].text_entities = <<>>], 1)))

-----------------------------------------------------------------------------
(* Entity convenience setters and in-place component updates *)

set_visible(w, e, visible) ==
    IF w.starved THEN w ELSE
    IF "Render" \in DOMAIN w.ent[e].components
    THEN [w EXCEPT !.ent[e].components.Render.visible = visible]
    ELSE w

set_texture(w, e, texture) ==
    IF w.starved THEN w ELSE
    IF "Render" \in DOMAIN w.ent[e].components
    THEN [w EXCEPT !.ent[e].components.Render.texture = texture]
    ELSE w

\* entity.components[Transform].x = x; .y = y
move_to(w, e, x, y) ==
    IF w.starved THEN w ELSE
    [w EXCEPT !.ent[e].components.Transform = Transform(x, y)]


-----------------------------------------------------------------------------
(* BlackjackScene *)

DECK_SUITS == <<"H", "D", "C", "S">>
DECK_RANKS == <<"2", "3", "4", "5", "6", "7", "8", "9", "10", "J", "Q", "K", "A">>
SUIT_TO_NAME == [H |-> "Hearts", D |-> "Diamonds", C |-> "Clubs", S |-> "Spades"]

\* The ranks dealt in the model: a sub-deck of DECK_RANKS x DECK_SUITS that
\* reaches every branch of the rules (blackjack on the deal, bust, dealer
\* hitting below 17, win, loss and push).
DeckRanks == {"K", "A"}
DeckSuits == {"H"}

\* int(rank) for the ranks made of digits
RankDigits ==
    [r \in {"2", "3", "4", "5", "6", "7", "8", "9", "10"} |->
        CASE r = "2" -> 2 [] r = "3" -> 3 [] r = "4" -> 4 [] r = "5" -> 5
          [] r = "6" -> 6 [] r = "7" -> 7 [] r = "8" -> 8 [] r = "9" -> 9
          [] r = "10" -> 10]

_create_deck(w) ==
    IF w.starved THEN w ELSE
    [w EXCEPT !.scn[BJ].deck =
        {<<DECK_RANKS[i], DECK_SUITS[j]>> :
            i \in {k \in 1..Len(DECK_RANKS) : DECK_RANKS[k] \in DeckRanks},
            j \in {k \in 1..Len(DECK_SUITS) : DECK_SUITS[k] \in DeckSuits}}]

SuitIndex(suit) == CHOOSE j \in 1..Len(DECK_SUITS) : DECK_SUITS[j] = suit

\* deck.pop() after random.shuffle: any card left in the deck.  No rule reads
\* the suit, so of the cards of one rank the first suit left stands for all.
NextCards(deck) ==
    {c \in deck : \A d \in deck : d[1] = c[1] => SuitIndex(c[2]) <= SuitIndex(d[2])}

\* _deal_card(hand): hand names the field ("player_hand" or "dealer_hand")
_deal_card(w, hand) ==
    IF w.starved THEN w ELSE
    LET refill(v) == IF v.scn[BJ].deck = {} THEN _create_deck(v) ELSE v
        pop(v) ==
            IF Dry(v) THEN Starve(v, NextCards(v.scn[BJ].deck))
            ELSE [Consume(v) EXCEPT !.scn[BJ].deck = @ \ {Drawn(v)},
                                    !.scn[BJ][hand] = Append(@, Drawn(v))]
    IN  pop(refill(w))

\* one iteration of the for loop of _calculate_hand_value on <<value, ace_count>>
AddRank(t, rank) ==
    IF rank \in DOMAIN RankDigits THEN <<t[1] + RankDigits[rank], t[2]>>
    ELSE IF rank \in {"T", "J", "Q", "K"} THEN <<t[1] + 10, t[2]>>
    ELSE IF rank = "A" THEN <<t[1] + 11, t[2] + 1>>
    ELSE t

\* the for loop of _calculate_hand_value: <<value, ace_count>> after hand[1..n]
RECURSIVE HandSum(_, _, _)
HandSum(hand, n, skip) ==
    IF n = 0 THEN <<0, 0>>
    ELSE IF skip /\ n = 2 THEN HandSum(hand, n - 1, skip)
    ELSE AddRank(HandSum(hand, n - 1, skip), hand[n][1])

\* while value > BLACKJACK_VALUE and ace_count > 0
RECURSIVE AceAdjust(_)
AceAdjust(t) ==
    IF t[1] > 21 /\ t[2] > 0 THEN AceAdjust(<<t[1] - 10, t[2] - 1>>)
    ELSE t[1]

_calculate_hand_value(w, hand, count_hidden) ==
    AceAdjust(HandSum(hand, Len(hand),
                      /\ count_hidden = FALSE
                      /\ w.scn[BJ].dealer_card_hidden
                      /\ hand = w.scn[BJ].dealer_hand))

\* self.player_score = self._calculate_hand_value(self.player_hand)
score_player(w) ==
    IF w.starved THEN w ELSE
    [w EXCEPT !.scn[BJ].player_score =
        _calculate_hand_value(w, w.scn[BJ].player_hand, FALSE)]

\* self.dealer_score = self._calculate_hand_value(self.dealer_hand)
score_dealer(w) ==
    IF w.starved THEN w ELSE
    [w EXCEPT !.scn[BJ].dealer_score =
        _calculate_hand_value(w, w.scn[BJ].dealer_hand, FALSE)]

CardImage(card) == "Deck1/" \o SUIT_TO_NAME[card[2]] \o card[1] \o ".png"

CardTexture(card, is_hidden) ==
    IF is_hidden THEN "Deck1/BackRed1.png" ELSE CardImage(card)

_create_card_entity(w, card, x, y, is_hidden) ==
    IF w.starved THEN w ELSE
    create_entity(w, BJ, Transform(x, y),
                  Render(CardTexture(card, is_hidden), DrawDepth.OBJECT), FALSE)

\* _clear_card_entities(entity_list): lst names the field holding the list
_clear_card_entities(w, lst) ==
    IF w.starved THEN w ELSE
    LET clear(v) == [v EXCEPT !.scn[BJ][lst] = <<>>]
    IN  clear(DestroyEach(w, BJ, w.scn[BJ][lst], 1))

\* the body of the for loop of _sync_card_entities for index i
SyncCard(w, hand_data, lst, y, hide_one, i) ==
    IF w.starved THEN w ELSE
    IF i < Len(w.scn[BJ][lst])
    THEN LET retexture(v, entity, target_texture) ==
                 IF v.ent[entity].components.Render.texture # target_texture
                 THEN set_texture(v, entity, target_texture) ELSE v
         IN  retexture(move_to(w, w.scn[BJ][lst][i + 1], 300 + i * 80, y),
                       w.scn[BJ][lst][i + 1],
                       CardTexture(hand_data[i + 1], hide_one /\ i = 1))
    ELSE LET append(v) == [v EXCEPT !.scn[BJ][lst] = Append(@, Fresh(w))]
         IN  append(_create_card_entity(w, hand_data[i + 1], 300 + i * 80, y,
                                        hide_one /\ i = 1))

\* for i in range(num_cards_needed)
RECURSIVE SyncFrom(_, _, _, _, _, _)
SyncFrom(w, hand_data, lst, y, hide_one, i) ==
    IF w.starved THEN w ELSE
    IF i >= Len(hand_data) THEN w
    ELSE SyncFrom(SyncCard(w, hand_data, lst, y, hide_one, i),
                  hand_data, lst, y, hide_one, i + 1)

\* while len(entity_list) > num_cards_needed: pop and destroy
RECURSIVE RemoveExcess(_, _, _)
RemoveExcess(w, lst, n) ==
    IF w.starved THEN w ELSE
    IF Len(w.scn[BJ][lst]) > n
    THEN LET pop(v) == [v EXCEPT !.scn[BJ][lst] = SubSeq(@, 1, Len(@) - 1)]
         IN  RemoveExcess(destroy_entity(pop(w), BJ,
                                         w.scn[BJ][lst][Len(w.scn[BJ][lst])]),
                          lst, n)
    ELSE w

_sync_card_entities(w, hand_data, lst, y, hide_one) ==
    IF w.starved THEN w ELSE
    RemoveExcess(SyncFrom(w, hand_data, lst, y, hide_one, 0), lst, Len(hand_data))

\* an _update_display that leaves the dealer's cards as they are
_update_display_player_only(w) ==
    IF w.starved THEN w ELSE
    _sync_card_entities(w, w.scn[BJ].player_hand, "player_card_entities", 350, FALSE)

\* _update_display: the card entities follow the hands.  (The score, deck
\* count and message texts and the button colours only re-render textures.)
_update_display(w) ==
    IF w.starved THEN w ELSE
    LET player(v) == _sync_card_entities(v, v.scn[BJ].player_hand,
                                         "player_card_entities", 350, FALSE)
        dealer(v) == _sync_card_entities(v, v.scn[BJ].dealer_hand,
                                         "dealer_card_entities", 100,
                                         v.scn[BJ].dealer_card_hidden)
    IN  dealer(player(w))

\* hit_button.set_visible(b); stand_button.set_visible(b)
show_buttons(w, visible) ==
    IF w.starved THEN w ELSE
    LET hit(v) == set_visible(v, v.scn[BJ].hit_button, visible)
        stand(v) == set_visible(v, v.scn[BJ].stand_button, visible)
    IN  stand(hit(w))

_end_round(w) ==
    IF w.starved THEN w ELSE
    LET over(v) == [v EXCEPT !.scn[BJ].game_state = "ROUND_OVER"]
        reveal(v) == [v EXCEPT !.scn[BJ].dealer_card_hidden = FALSE]
    IN  _update_display(reveal(show_buttons(over(w), FALSE)))

_start_new_round(w) ==
    IF w.starved THEN w ELSE
    LET hands(v) == [v EXCEPT !.scn[BJ].player_hand = <<>>,
                              !.scn[BJ].dealer_hand = <<>>]
        cards(v) == _clear_card_entities(
                        _clear_card_entities(v, "player_card_entities"),
                        "dealer_card_entities")
        deck(v) == [_create_deck(v) EXCEPT !.scn[BJ].dealer_card_hidden = TRUE]
        deal(v) == _deal_card(_deal_card(_deal_card(_deal_card(v,
                       "player_hand"), "dealer_hand"), "player_hand"),
                       "dealer_hand")
        reveal(v) == [v EXCEPT !.scn[BJ].dealer_card_hidden = FALSE]
        turn(v) == [v EXCEPT !.scn[BJ].game_state = "PLAYER_TURN"]
        check(v) == IF v.starved THEN v
                    ELSE IF v.scn[BJ].player_score = 21
                    THEN _end_round(score_dealer(reveal(v)))
                    ELSE turn(v)
    IN  _update_display(check(score_dealer(score_player(
            deal(deck(show_buttons(cards(hands(w)), TRUE)))))))

_player_stand(w) ==
    IF w.starved THEN w ELSE
    IF w.scn[BJ].game_state # "PLAYER_TURN" THEN w
    ELSE LET turn(v) == [v EXCEPT !.scn[BJ].game_state = "DEALER_TURN",
                                  !.scn[BJ].dealer_card_hidden = FALSE]
         IN  _update_display(score_dealer(turn(w)))

_player_hit(w) ==
    IF w.starved THEN w ELSE
    IF w.scn[BJ].game_state # "PLAYER_TURN" THEN w
    ELSE LET check(v) == IF v.starved THEN v
                         ELSE IF v.scn[BJ].player_score > 21 THEN _end_round(v)
                         ELSE IF v.scn[BJ].player_score = 21 THEN _player_stand(v)
                         ELSE v
         IN  check(_update_display(score_player(_deal_card(w, "player_hand"))))

\* a dealer who draws below 21
_dealer_play_below_21(w) ==
    IF w.starved THEN w ELSE
    IF w.scn[BJ].dealer_score < 21
    THEN LET check(v) == IF v.starved THEN v
                         ELSE IF v.scn[BJ].dealer_score > 21 THEN _end_round(v)
                         ELSE v
         IN  check(score_dealer(_deal_card(w, "dealer_hand")))
    ELSE _end_round(w)

_dealer_play(w) ==
    IF w.starved THEN w ELSE
    IF w.scn[BJ].dealer_score < 17
    THEN LET check(v) == IF v.starved THEN v
                         ELSE IF v.scn[BJ].dealer_score > 21 THEN _end_round(v)
                         ELSE v
         IN  check(score_dealer(_deal_card(w, "dealer_hand")))
    ELSE _end_round(w)

\* the tick listener BlackjackScene._update(dt)
Blackjack_update(w, dt) ==
    IF w.starved THEN w ELSE
    LET wait(v) == [v EXCEPT !.scn[BJ].dealer_last_action = @ + dt]
        reset(v) == IF v.starved THEN v
                    ELSE [v EXCEPT !.scn[BJ].dealer_last_action = 0]
        act(v) == IF v.scn[BJ].dealer_last_action > 750
                  THEN reset(_dealer_play(v)) ELSE v
        turn(v) == IF v.scn[BJ].game_state = "DEALER_TURN" THEN act(wait(v))
                   ELSE v
    IN  _update_display(turn(w))

\* _create_ui_text: the eight TextEntity fields of load, in order
BJ_UI ==
    << [field |-> "dealer_hand_text", x |-> 150, y |-> 100],
       [field |-> "dealer_score_text", x |-> 150, y |-> 130],
       [field |-> "deck_count", x |-> 150, y |-> 40],
       [field |-> "player_hand_text", x |-> 150, y |-> 350],
       [field |-> "player_score_text", x |-> 150, y |-> 380],
       [field |-> "message_text", x |-> 0, y |-> 250],
       [field |-> "hit_button", x |-> 200, y |-> 500],
       [field |-> "stand_button", x |-> 400, y |-> 500] >>

RECURSIVE BlackjackUI(_, _)
BlackjackUI(w, i) ==
    IF w.starved THEN w ELSE
    IF i > Len(BJ_UI) THEN w
    ELSE BlackjackUI(create_text(w, BJ, BJ_UI[i].x, BJ_UI[i].y, BJ_UI[i].field),
                     i + 1)

Blackjack_load(w) ==
    IF w.starved THEN w ELSE
    LET fields(v) == [v EXCEPT !.scn[BJ].deck = {},
                               !.scn[BJ].player_hand = <<>>,
                               !.scn[BJ].dealer_hand = <<>>,
                               !.scn[BJ].player_card_entities = <<>>,
                               !.scn[BJ].dealer_card_entities = <<>>,
                               !.scn[BJ].player_score = 0,
                               !.scn[BJ].dealer_score = 0,
                               !.scn[BJ].game_state = "DEALING",
                               !.scn[BJ].dealer_card_hidden = TRUE,
                               !.scn[BJ].dealer_last_action = 0]
        keys(v) == Scene_subscribe(v, BJ, "key_down", <<BJ, "handle_input">>)
        mouse(v) == Scene_subscribe(v, BJ, "mouse_button_down",
                                    <<BJ, "handle_mouse_click">>)
    IN  _start_new_round(mouse(keys(BlackjackUI(
            fields(subscribe(w, "tick", <<BJ, "_update">>)), 1))))

\* unload: destroy_entity on the card tuples of the two hands finds them in
\* neither list, so clearing the hands only empties them
Blackjack_unload(w) ==
    IF w.starved THEN w ELSE
    LET hands(v) == [v EXCEPT !.scn[BJ].player_hand = <<>>,
                              !.scn[BJ].dealer_hand = <<>>]
    IN  Scene_unload(hands(_clear_card_entities(
            _clear_card_entities(w, "player_card_entities"),
            "dealer_card_entities")), BJ)

-----------------------------------------------------------------------------
(* SnakeScene *)

MOVE_INTERVAL == 200
TILE_SIZE == 30

UP == <<0, -1>>
DOWN == <<0, 1>>
LEFT == <<-1, 0>>
RIGHT == <<1, 0>>

\* a snake segment or the food: a tile-sized surface at a grid position
TileTransform(grid_pos) == Transform(grid_pos[1] * TILE_SIZE, grid_pos[2] * TILE_SIZE)

GridPos(w, e) ==
    <<w.ent[e].components.Transform.x \div TILE_SIZE,
      w.ent[e].components.Transform.y \div TILE_SIZE>>

\* engine.new_entity(...) followed by self.add_entity(...)
NewSegment(w, grid_pos) ==
    IF w.starved THEN w ELSE
    add_entity(new_entity(w, TileTransform(grid_pos),
                          Render("segment", DrawDepth.OBJECT)),
               SN, Fresh(w))

\* for i in range(initial_length)
RECURSIVE InitialSegments(_, _)
InitialSegments(w, i) ==
    IF w.starved THEN w ELSE
    IF i >= 3 THEN w
    ELSE LET append(v) == [v EXCEPT !.scn[SN].snake_segments = Append(@, Fresh(w))]
         IN  InitialSegments(
                 append(NewSegment(w, <<(w.scn[SN].grid_width \div 4) - i,
                                        w.scn[SN].grid_height \div 2>>)),
                 i + 1)

_create_initial_snake(w) ==
    IF w.starved THEN w ELSE
    LET clear(v) == [v EXCEPT !.scn[SN].snake_segments = <<>>]
        head(v) == IF v.starved THEN v
                   ELSE [v EXCEPT !.scn[SN].direction = RIGHT,
                                  !.scn[SN].next_direction = RIGHT]
    IN  head(InitialSegments(clear(w), 0))

\* (the x of the two texts is centred on the rendered width)
_game_over(w) ==
    IF w.starved THEN w ELSE
    IF w.scn[SN].is_game_over THEN w
    ELSE LET over(v) == [v EXCEPT !.scn[SN].is_game_over = TRUE]
             go_text(v) == append_text(v, SN, 0,
                                       (v.scn[SN].grid_height * TILE_SIZE) \div 2 - 60,
                                       "game_over_entities")
             restart_text(v) == append_text(v, SN, 0,
                                            (v.scn[SN].grid_height * TILE_SIZE) \div 2 + 20,
                                            "game_over_entities")
         IN  restart_text(go_text(over(w)))

\* every cell of the grid, the snake's included
AvailablePositions_whole_grid(w) ==
    (0..(w.scn[SN].grid_width - 1)) \X (0..(w.scn[SN].grid_height - 1))

\* list(possible_positions - snake_positions)
AvailablePositions(w) ==
    ((0..(w.scn[SN].grid_width - 1)) \X (0..(w.scn[SN].grid_height - 1)))
        \ {GridPos(w, w.scn[SN].snake_segments[i]) :
               i \in 1..Len(w.scn[SN].snake_segments)}

\* self.food_entity = self.create_entity(Entity, transform=, render=, events=)
create_food(w, grid_pos) ==
    IF w.starved THEN w ELSE
    LET assign(v) == [v EXCEPT !.scn[SN].food_entity = Fresh(w)]
    IN  assign(create_entity(w, SN, TileTransform(grid_pos),
                             Render("food", DrawDepth.OBJECT), FALSE))

\* random.choice(available_positions) is a draw
_spawn_food(w) ==
    IF w.starved THEN w ELSE
    IF AvailablePositions(w) = {} THEN _game_over(w)
    ELSE IF Dry(w) THEN Starve(w, AvailablePositions(w))
    ELSE create_food(Consume(w), Drawn(w))

\* the food branch of _move_snake: score, achievement, respawn
EatFood(w) ==
    IF w.starved THEN w ELSE
    LET score(v) == [v EXCEPT !.scn[SN].score = @ + 1]
        award(v) == IF v.scn[SN].score \in {30, 75, 150}
                    THEN emit(v, "steam_achievements", [score |-> v.scn[SN].score])
                    ELSE v
        eat(v) == IF v.starved THEN v
                  ELSE [destroy_entity(v, SN, v.scn[SN].food_entity)
                           EXCEPT !.scn[SN].food_entity = None]
    IN  _spawn_food(eat(award(score(w))))

\* the head's grid position moved by self.direction
NewGridPos(w) ==
    <<GridPos(w, w.scn[SN].snake_segments[1])[1] + w.scn[SN].direction[1],
      GridPos(w, w.scn[SN].snake_segments[1])[2] + w.scn[SN].direction[2]>>

\* new_entity, add_entity, snake_segments.appendleft
AddHead(w, new_grid_pos) ==
    IF w.starved THEN w ELSE
    LET appendleft(v) == [v EXCEPT !.scn[SN].snake_segments = <<Fresh(w)>> \o @]
    IN  appendleft(NewSegment(w, new_grid_pos))

\* tail_entity = self.snake_segments.pop(); self.destroy_entity(tail_entity)
RemoveTail(w) ==
    IF w.starved THEN w ELSE
    LET pop(v) == [v EXCEPT !.scn[SN].snake_segments = SubSeq(@, 1, Len(@) - 1)]
    IN  destroy_entity(pop(w), SN,
                       w.scn[SN].snake_segments[Len(w.scn[SN].snake_segments)])

_move_snake(w) ==
    IF w.starved THEN w ELSE
    IF w.scn[SN].snake_segments = <<>> THEN w
    ELSE
    LET turn(v) == [v EXCEPT !.scn[SN].direction = v.scn[SN].next_direction]
        feed(v, new_grid_pos) ==
            IF v.starved THEN v
            ELSE IF /\ v.scn[SN].food_entity # None
                    /\ new_grid_pos = GridPos(v, v.scn[SN].food_entity)
            THEN EatFood(v)
            ELSE RemoveTail(v)
        step(v, new_grid_pos) ==
            IF ~(/\ 0 <= new_grid_pos[1] /\ new_grid_pos[1] < v.scn[SN].grid_width
                 /\ 0 <= new_grid_pos[2] /\ new_grid_pos[2] < v.scn[SN].grid_height)
            THEN _game_over(v)
            ELSE IF \E i \in 2..Len(v.scn[SN].snake_segments) :
                        new_grid_pos = GridPos(v, v.scn[SN].snake_segments[i])
            THEN _game_over(v)
            ELSE feed(AddHead(v, new_grid_pos), new_grid_pos)
        move(v) == step(v, NewGridPos(v))
    IN  move(turn(w))

\* the tick listener SnakeScene.update(dt), also called by the scene manager
Snake_update(w, dt) ==
    IF w.starved THEN w ELSE
    IF w.scn[SN].is_game_over THEN w
    ELSE LET wait(v) == [v EXCEPT !.scn[SN].move_timer = @ + dt]
             move(v) == IF v.scn[SN].move_timer >= MOVE_INTERVAL
                        THEN _move_snake([v EXCEPT !.scn[SN].move_timer =
                                                       @ - MOVE_INTERVAL])
                        ELSE v
         IN  move(wait(w))

_restart_game(w) ==
    IF w.starved THEN w ELSE
    LET segments(v) == [DestroyEach(v, SN, v.scn[SN].snake_segments, 1)
                           EXCEPT !.scn[SN].snake_segments = <<>>]
        food(v) == IF v.scn[SN].food_entity # None
                   THEN [destroy_entity(v, SN, v.scn[SN].food_entity)
                            EXCEPT !.scn[SN].food_entity = None]
                   ELSE v
        texts(v) == [DestroyEach(v, SN, v.scn[SN].game_over_entities, 1)
                        EXCEPT !.scn[SN].game_over_entities = <<>>]
        reset(v) == [v EXCEPT !.scn[SN].score = 0,
                              !.scn[SN].direction = RIGHT,
                              !.scn[SN].next_direction = RIGHT,
                              !.scn[SN].move_timer = 0,
                              !.scn[SN].is_game_over = FALSE]
    IN  _spawn_food(_create_initial_snake(reset(texts(food(segments(w))))))

Snake_load(w) ==
    IF w.starved THEN w ELSE
    LET fields(v) == [v EXCEPT !.scn[SN].snake_segments = <<>>,
                               !.scn[SN].direction = RIGHT,
                               !.scn[SN].next_direction = RIGHT,
                               !.scn[SN].food_entity = None,
                               !.scn[SN].score = 0,
                               !.scn[SN].move_timer = 0,
                               !.scn[SN].is_game_over = FALSE,
                               !.scn[SN].game_over_entities = <<>>]
        keys(v) == Scene_subscribe(v, SN, "key_down", <<SN, "handle_input">>)
        tick(v) == Scene_subscribe(v, SN, "tick", <<SN, "update">>)
    IN  tick(keys(_spawn_food(_create_initial_snake(
            create_text(fields(w), SN, 10, 10, "score_text")))))

-----------------------------------------------------------------------------
(* SceneManager *)

\* scene.load() of the scene object's class
LoadScene(w, s) ==
    CASE s = MM -> MainMenu_load(w)
      [] s = SN -> Snake_load(w)
      [] s = BJ -> Blackjack_load(w)
      [] s = PH -> Placeholder_load(w)
      [] s = CR -> Credits_load(w)

\* self.active_scene.load(): its entry is logged and noted, and what it
\* created is remembered in made
load(w, s) ==
    IF w.starved THEN w ELSE
    LET mark(v) == IF v.starved THEN v
                   ELSE [v EXCEPT !.made[s] = DOMAIN v.ent \ DOMAIN w.ent]
    IN  mark(LoadScene(Observe(Log(w, "load", s), "load", s, NoArgs), s))

\* self.active_scene.unload(): its return is logged
unload(w, s) ==
    IF w.starved THEN w ELSE
    Log(IF s = BJ THEN Blackjack_unload(w) ELSE Scene_unload(w, s), "unload", s)

register_scene(w, name, scene) ==
    [w EXCEPT !.scenes = [n \in DOMAIN w.scenes \cup {name} |->
                             IF n = name THEN scene ELSE w.scenes[n]]]

\* a scene manager that loads the incoming scene before it unloads the
\* outgoing one
set_active_scene_load_first(w, name) ==
    IF w.starved THEN w ELSE
    LET leave(v) == IF w.active_scene # NoScene THEN unload(v, w.active_scene)
                    ELSE v
        activate(v) == IF v.starved THEN v
                       ELSE [v EXCEPT !.active_scene_name = name,
                                      !.active_scene = v.scenes[name],
                                      !.switches = @ + 1]
        enter(v) == IF v.starved THEN v ELSE load(v, v.scenes[name])
        switch(v) == IF name \notin DOMAIN v.scenes THEN v
                     ELSE IF v.active_scene_name = name THEN v
                     ELSE activate(leave(enter(v)))
    IN  Log(switch(Log(w, "call", name)), "return", name)

\* a scene manager that reloads the active scene when it is named again
set_active_scene_reload(w, name) ==
    IF w.starved THEN w ELSE
    LET leave(v) == IF v.active_scene # NoScene THEN unload(v, v.active_scene)
                    ELSE v
        activate(v) == IF v.starved THEN v
                       ELSE [v EXCEPT !.active_scene_name = name,
                                      !.active_scene = v.scenes[name],
                                      !.switches = @ + 1]
        enter(v) == IF v.starved THEN v ELSE load(v, v.active_scene)
        switch(v) == IF name \notin DOMAIN v.scenes THEN v
                     ELSE enter(activate(leave(v)))
    IN  Log(switch(Log(w, "call", name)), "return", name)

\* the call and its return are logged with the name it was given
set_active_scene(w, name) ==
    IF w.starved THEN w ELSE
    LET leave(v) == IF v.active_scene # NoScene THEN unload(v, v.active_scene)
                    ELSE v
        activate(v) == IF v.starved THEN v
                       ELSE [v EXCEPT !.active_scene_name = name,
                                      !.active_scene = v.scenes[name],
                                      !.switches = @ + 1]
        enter(v) == IF v.starved THEN v ELSE load(v, v.active_scene)
        switch(v) == IF name \notin DOMAIN v.scenes THEN v
                     ELSE IF v.active_scene_name = name THEN v
                     ELSE enter(activate(leave(v)))
    IN  Log(switch(Log(w, "call", name)), "return", name)

-----------------------------------------------------------------------------
(* Engine.exit *)

Engine_exit(w) == IF w.starved THEN w ELSE [w EXCEPT !.running = FALSE]

-----------------------------------------------------------------------------
(* MainMenuScene input handlers.  A mouse position is the screen region it *)
(* falls in: the rectangle of a text entity, or none of them.              *)

MENU_REGIONS == <<"option0", "option1", "option2", "option3", "option4">>

\* the scene name each case of the match statement passes to set_active_scene
MENU_TARGETS ==
    [Snake |-> "snake", Blackjack |-> "blackjack", Roadrunner |-> "roadrunner",
     Credits |-> "credits"]

select_option(w) ==
    IF w.starved THEN w ELSE
    IF ~(0 <= w.scn[MM].selected_index /\ w.scn[MM].selected_index < Len(MENU_OPTIONS))
    THEN w
    ELSE LET match(selected_option) ==
                 IF selected_option \in DOMAIN MENU_TARGETS
                 THEN set_active_scene(w, MENU_TARGETS[selected_option])
                 ELSE IF selected_option = "Quit" THEN Engine_exit(w)
                 ELSE w
         IN  match(MENU_OPTIONS[w.scn[MM].selected_index + 1])

MainMenu_handle_input(w, key) ==
    IF w.starved THEN w ELSE
    IF key \in {"K_UP", "K_w", "K_k"}
    THEN [w EXCEPT !.scn[MM].selected_index = (@ - 1) % Len(MENU_OPTIONS)]
    ELSE IF key \in {"K_DOWN", "K_s", "K_j"}
    THEN [w EXCEPT !.scn[MM].selected_index = (@ + 1) % Len(MENU_OPTIONS)]
    ELSE IF key \in {"K_RETURN", "K_SPACE"} THEN select_option(w)
    ELSE w

\* the indexes of the menu entities whose rectangle holds pos
MenuHits(w, pos) ==
    {i \in 0..(Len(w.scn[MM].menu_entities) - 1) :
        /\ w.ent[w.scn[MM].menu_entities[i + 1]].components.Render.texture # "None"
        /\ pos = MENU_REGIONS[i + 1]}

\* for i, entity in enumerate(self.menu_entities): the first one hit, then break
MainMenu_handle_mouse_click(w, pos, button) ==
    IF w.starved THEN w ELSE
    IF button # 1 THEN w
    ELSE IF MenuHits(w, pos) = {} THEN w
    ELSE select_option([w EXCEPT !.scn[MM].selected_index =
             CHOOSE k \in MenuHits(w, pos) : \A j \in MenuHits(w, pos) : k <= j])

-----------------------------------------------------------------------------
(* PlaceholderScene and CreditsScene input handlers *)

Placeholder_handle_input(w, key) ==
    IF w.starved THEN w ELSE
    IF key = "K_ESCAPE" THEN set_active_scene(w, "main_menu") ELSE w

Credits_handle_input(w, key) ==
    IF w.starved THEN w ELSE
    IF key = "K_ESCAPE" THEN set_active_scene(w, "main_menu") ELSE w

\* a click on a line with a url opens the browser; nothing of the engine changes
Credits_handle_mouse_click(w, pos, button) == w

-----------------------------------------------------------------------------
(* BlackjackScene input handlers *)

Blackjack_handle_input(w, key) ==
    IF w.starved THEN w ELSE
    IF key = "K_ESCAPE" THEN set_active_scene(w, "main_menu")
    ELSE IF w.scn[BJ].game_state = "PLAYER_TURN"
    THEN IF key = "K_h" THEN _player_hit(w)
         ELSE IF key = "K_s" THEN _player_stand(w)
         ELSE w
    ELSE IF w.scn[BJ].game_state = "ROUND_OVER"
    THEN IF key \in {"K_RETURN", "K_SPACE"} THEN _start_new_round(w) ELSE w
    ELSE w

\* a click handler that deals again whenever it is not the player's turn
Blackjack_handle_mouse_click_any_time(w, pos, button) ==
    IF w.starved THEN w ELSE
    IF button # 1 THEN w
    ELSE IF w.scn[BJ].game_state = "PLAYER_TURN"
    THEN IF pos = "hit_button" THEN _player_hit(w)
         ELSE IF pos = "stand_button" THEN _player_stand(w)
         ELSE w
    ELSE _start_new_round(w)

Blackjack_handle_mouse_click(w, pos, button) ==
    IF w.starved THEN w ELSE
    IF button # 1 THEN w
    ELSE IF w.scn[BJ].game_state = "PLAYER_TURN"
    THEN IF /\ w.ent[w.scn[BJ].hit_button].components.Render.texture # "None"
            /\ pos = "hit_button"
         THEN _player_hit(w)
         ELSE IF /\ w.ent[w.scn[BJ].stand_button].components.Render.texture # "None"
                 /\ pos = "stand_button"
         THEN _player_stand(w)
         ELSE w
    ELSE IF w.scn[BJ].game_state = "ROUND_OVER" THEN _start_new_round(w)
    ELSE w

-----------------------------------------------------------------------------
(* SnakeScene input handler *)

\* a steering that takes every direction
Steer_freely(w, new_direction) ==
    [w EXCEPT !.scn[SN].next_direction = new_direction]

\* the direction change at the end of handle_input
Steer(w, new_direction) ==
    IF \/ w.scn[SN].direction[1] + new_direction[1] # 0
       \/ w.scn[SN].direction[2] + new_direction[2] # 0
    THEN [w EXCEPT !.scn[SN].next_direction = new_direction]
    ELSE w

Snake_handle_input(w, key) ==
    IF w.starved THEN w ELSE
    IF key \in {"K_UP", "K_w"} THEN Steer(w, UP)
    ELSE IF key \in {"K_DOWN", "K_s"} THEN Steer(w, DOWN)
    ELSE IF key \in {"K_LEFT", "K_a"} THEN Steer(w, LEFT)
    ELSE IF key \in {"K_RIGHT", "K_d"} THEN Steer(w, RIGHT)
    ELSE IF key = "K_ESCAPE" THEN set_active_scene(w, "main_menu")
    ELSE IF w.scn[SN].is_game_over /\ key \in {"K_RETURN", "K_SPACE"}
    THEN _restart_game(w)
    ELSE Steer(w, w.scn[SN].direction)

-----------------------------------------------------------------------------
(* The engine's own listeners *)

\* scene.update(dt): Scene.update is a no-op hook that only SnakeScene
\* overrides; the invocation is noted
Scene_update(w, s, dt) ==
    IF w.starved THEN w ELSE
    LET entered(v) == Observe(v, "update", s, [dt |-> dt])
    IN  IF s = SN THEN Snake_update(entered(w), dt) ELSE entered(w)

_update_active_scene(w, dt) ==
    IF w.starved THEN w ELSE
    IF w.active_scene # NoScene THEN Scene_update(w, w.active_scene, dt)
    ELSE w

\* the bus and the arguments PygameEvents.process_events emits for an event
EventBusOf(event) ==
    CASE event.type = "QUIT" -> "quit"
      [] event.type = "KEYDOWN" -> "key_down"
      [] event.type = "KEYUP" -> "key_up"
      [] event.type = "MOUSEBUTTONDOWN" -> "mouse_button_down"
      [] OTHER -> "none"

\* PygameEvents.process_events: for event in pygame.event.get()
RECURSIVE ProcessFrom(_, _)
ProcessFrom(w, i) ==
    IF w.starved THEN w ELSE
    IF i > Len(w.queue) THEN w
    ELSE ProcessFrom(IF EventBusOf(w.queue[i]) = "none" THEN w
                     ELSE emit(w, EventBusOf(w.queue[i]), w.queue[i]),
                     i + 1)

process_events(w) == ProcessFrom(w, 1)

\* listener(**kwargs) for every bound method the program subscribes, noted
\* as it is entered.  MusicSystem (volume, playlist) and SteamworksSystem
\* (callbacks) change nothing of the engine state, nor do the caller's
\* listeners; a caller's <<"Once", b>> unsubscribes itself from bus b and
\* its <<"Drop", b, l>> unsubscribes l from bus b if l is there.  A caller's
\* <<"Handler", m>> is a collision listener that calls entity_a.set_active(False),
\* scene.destroy_entity(entity_a), or assigns None to entity_a.collider.
Invoke(v, listener, args) ==
    IF v.starved THEN v ELSE
    CASE listener[1] = "PygameEvents" -> process_events(v)
      [] listener[1] = "CollisionSystem" -> CollisionSystem_update(v)
      [] listener[1] = "RenderSystem" -> RenderSystem_update(v)
      [] listener[1] = "SceneManager" -> _update_active_scene(v, args.dt)
      [] listener[1] = "Engine" -> Engine_exit(v)
      [] listener = <<MM, "handle_input">> -> MainMenu_handle_input(v, args.key)
      [] listener = <<MM, "handle_mouse_click">> ->
             MainMenu_handle_mouse_click(v, args.pos, args.button)
      [] listener = <<PH, "handle_input">> ->
             Placeholder_handle_input(v, args.key)
      [] listener = <<CR, "handle_input">> -> Credits_handle_input(v, args.key)
      [] listener = <<CR, "handle_mouse_click">> ->
             Credits_handle_mouse_click(v, args.pos, args.button)
      [] listener = <<BJ, "_update">> -> Blackjack_update(v, args.dt)
      [] listener = <<BJ, "handle_input">> ->
             Blackjack_handle_input(v, args.key)
      [] listener = <<BJ, "handle_mouse_click">> ->
             Blackjack_handle_mouse_click(v, args.pos, args.button)
      [] listener = <<SN, "update">> -> Scene_update(v, SN, args.dt)
      [] listener = <<SN, "handle_input">> -> Snake_handle_input(v, args.key)
      [] listener[1] = "Once" -> unsubscribe(v, listener[2], listener)
      [] listener = <<"Handler", "set_active">> ->
             set_active(v, args.entity_a, FALSE)
      [] listener = <<"Handler", "destroy_entity">> ->
             destroy_entity(v, PH, args.entity_a)
      [] listener = <<"Handler", "collider">> ->
             set_collider(v, args.entity_a, None)
      [] listener[1] = "Drop" ->
             IF CanUnsubscribe(v, listener[2], listener[3])
             THEN unsubscribe(v, listener[2], listener[3]) ELSE v
      [] OTHER -> v

\* the listener is noted as it is entered, then run
Call(w, listener, args) ==
    IF w.starved THEN w ELSE Invoke(Heard(w, listener, args), listener, args)

\* for listener in self._listeners: listener(**kwargs)
EmitFrom(w, b, i, args) ==
    IF w.starved THEN w ELSE
    IF i > Len(w.bus[b]) THEN w
    ELSE EmitFrom(Call(w, w.bus[b][i], args), b, i + 1, args)

-----------------------------------------------------------------------------
(* Engine.start: one iteration of the loop *)

\* an order in which the scene is updated before the events are read
FRAME_BUSES_tick_first == <<"tick", "pre_tick", "late_tick">>

\* the buses an iteration emits on, in order; tick alone carries dt
FRAME_BUSES == <<"pre_tick", "tick", "late_tick">>

\* a loop that looks at self.running between two phases
RECURSIVE FrameFrom_stopping(_, _, _)
FrameFrom_stopping(w, delta_time, i) ==
    IF w.starved THEN w ELSE
    IF i > Len(FRAME_BUSES) \/ ~w.running THEN w
    ELSE FrameFrom_stopping(emit(w, FRAME_BUSES[i],
                                 IF FRAME_BUSES[i] = "tick" THEN [dt |-> delta_time]
                                 ELSE NoArgs),
                            delta_time, i + 1)

RECURSIVE FrameFrom(_, _, _)
FrameFrom(w, delta_time, i) ==
    IF w.starved THEN w ELSE
    IF i > Len(FRAME_BUSES) THEN w
    ELSE FrameFrom(emit(w, FRAME_BUSES[i],
                        IF FRAME_BUSES[i] = "tick" THEN [dt |-> delta_time]
                        ELSE NoArgs),
                   delta_time, i + 1)

\* the body of the while loop, milliseconds being what get_ticks() returns;
\* the overlay drawn and the screen presented are noted
Frame(w, milliseconds) ==
    IF w.starved THEN w ELSE
    LET stamp(v) == [v EXCEPT !.last_tick = milliseconds]
        overlay(v) == IF v.starved THEN v
                      ELSE IF v.active_scene # NoScene
                      THEN Observe(v, "draw_overlay", v.active_scene, NoArgs)
                      ELSE v
        present(v) == IF v.starved THEN v
                      ELSE Observe(v, "draw", "Screen", NoArgs)
    IN  present(overlay(FrameFrom(stamp(w), milliseconds - w.last_tick, 1)))

-----------------------------------------------------------------------------
(* Object lifetime: an Entity nothing refers to any more is reclaimed.  An *)
(* object's identity is opaque to the program, so at the end of a step the *)
(* live entities are renamed 1..n in their order of creation (and those    *)
(* that only the step's own log still mentions, -1, -2, ...); so are the   *)
(* colliders.                                                              *)

\* the attributes of the scene classes that hold an entity, or a list of them
HandleFields ==
    {"title", "instructions", "score_text", "food_entity"}
    \cup {BJ_UI[i].field : i \in 1..Len(BJ_UI)}

HandleListFields ==
    {"_entities", "menu_entities", "text_entities", "player_card_entities",
     "dealer_card_entities", "snake_segments", "game_over_entities"}

SceneRefs(w) ==
    UNION {UNION {IF k \in HandleFields THEN {w.scn[s][k]}
                  ELSE IF k \in HandleListFields THEN Range(w.scn[s][k])
                  ELSE {} : k \in DOMAIN w.scn[s]} : s \in DOMAIN w.scn}

Referenced(w) ==
    Range(w.entities) \cup w.held \cup SceneRefs(w)
    \cup {w.col[c].parent : c \in Range(w.colliders)}

\* the colliders still reachable: registered, or some live entity's collider
LiveColliders(w, live) ==
    (Range(w.colliders) \cup {w.ent[e].collider : e \in live}) \ {None}

\* the new name of every handle of all, given the live ones
RenameMap(all, live) ==
    [h \in all |-> IF h \in live THEN Cardinality({k \in live : k <= h})
                   ELSE 0 - Cardinality({k \in all \ live : k <= h})]

Rename(R, h) == IF h \in DOMAIN R THEN R[h] ELSE h

RenameSeq(R, q) == [i \in 1..Len(q) |-> Rename(R, q[i])]

RenameSet(R, S) == {Rename(R, h) : h \in S}

\* a note of the trace with the handles it mentions renamed
RenameNote(R, C, n) ==
    CASE n.op \in {"call", "unload", "unsubscribe_all", "destroy_all_entities"} ->
             [n EXCEPT !.args.entities = RenameSeq(R, @),
                       !.args.engine = RenameSeq(R, @)]
      [] n.op \in {"register_collider", "unregister_collider"} ->
             [n EXCEPT !.who = Rename(C, @), !.args.before = RenameSeq(C, @)]
      [] n.op \in {"intersects", "deactivated", "blit", "insert"} ->
             [n EXCEPT !.who = RenameSeq(R, @)]
      [] n.op \in {"emit", "listener"} /\ "entity_a" \in DOMAIN n.args ->
             [n EXCEPT !.args.entity_a = Rename(R, @),
                       !.args.entity_b = Rename(R, @),
                       !.args.collider_a = Rename(C, @),
                       !.args.collider_b = Rename(C, @)]
      [] n.op \in {"destroy_entity", "create_entity"} ->
             [n EXCEPT !.who = RenameSeq(R, @),
                       !.args.entities = RenameSeq(R, @),
                       !.args.tracked = RenameSeq(R, @),
                       !.args.colliders = RenameSeq(C, @)]
      [] OTHER -> n

\* w with its entities renamed by R and its colliders by C
Renamed(w, R, C) ==
    [w EXCEPT
       !.entities = RenameSeq(R, @),
       !.ent = [i \in 1..Cardinality({h \in DOMAIN R : R[h] > 0}) |->
                   [w.ent[CHOOSE h \in DOMAIN R : R[h] = i]
                       EXCEPT !.collider = Rename(C, @)]],
       !.held = RenameSet(R, @),
       !.colliders = RenameSeq(C, @),
       !.col = [i \in 1..Cardinality({c \in DOMAIN C : C[c] > 0}) |->
                   [w.col[CHOOSE c \in DOMAIN C : C[c] = i]
                       EXCEPT !.parent = Rename(R, @)]],
       !.made = [s \in DOMAIN w.made |-> RenameSet(R, w.made[s])],
       !.scn = [s \in DOMAIN w.scn |->
                   [k \in DOMAIN w.scn[s] |->
                       IF k \in HandleFields THEN Rename(R, w.scn[s][k])
                       ELSE IF k \in HandleListFields THEN RenameSeq(R, w.scn[s][k])
                       ELSE w.scn[s][k]]],
       !.calls = [i \in 1..Len(w.calls) |->
                     [w.calls[i] EXCEPT
                         !.snap.entities = RenameSeq(R, @),
                         !.snap.made = [s \in DOMAIN @ |-> RenameSet(R, @[s])]]],
       !.trace = [i \in 1..Len(w.trace) |-> RenameNote(R, C, w.trace[i])],
       !.emitted = [i \in 1..Len(w.emitted) |->
                       [w.emitted[i] EXCEPT !.entity_a = Rename(R, @),
                                            !.entity_b = Rename(R, @),
                                            !.collider_a = Rename(C, @),
                                            !.collider_b = Rename(C, @)]]]

CollectLive(w, live) ==
    Renamed(w, RenameMap(DOMAIN w.ent, live),
            RenameMap(DOMAIN w.col, LiveColliders(w, live)))

Collect(w) == CollectLive(w, DOMAIN w.ent \cap Referenced(w))

-----------------------------------------------------------------------------
(* The state after Engine.__init__ and the registrations of main.py *)

\* the subscriptions of Engine.__init__, in order.  SteamworksSystem subscribes
\* only when the Steam client answers, MusicSystem only when the mixer starts.
EngineBuses(steam, music) ==
    [collusion |-> <<>>,
     pre_tick |-> << <<"PygameEvents", "process_events">>,
                     <<"CollisionSystem", "update">> >>,
     tick |-> (IF steam THEN << <<"SteamworksSystem", "_run_callbacks">> >> ELSE <<>>)
              \o (IF music THEN << <<"MusicSystem", "update">> >> ELSE <<>>)
              \o << <<"SceneManager", "_update_active_scene">> >>,
     late_tick |-> << <<"RenderSystem", "update">> >>,
     quit |-> << <<"Engine", "exit">> >>
              \o (IF steam THEN << <<"SteamworksSystem", "shutdown">> >> ELSE <<>>),
     key_down |-> IF music THEN << <<"MusicSystem", "handle_input">> >> ELSE <<>>,
     key_up |-> <<>>,
     key_pressed |-> <<>>,
     mouse_button_down |-> <<>>,
     steam_achievements |->
         IF steam THEN << <<"SteamworksSystem", "unlock_achievement">> >> ELSE <<>>]

\* Scene.__init__ of every scene object; the fields that load() assigns are
\* shown with an empty value until then
SceneFields ==
    [s \in SceneObjects |->
        CASE s = MM -> [_entities |-> <<>>, _listeners |-> <<>>, title |-> None,
                        menu_entities |-> <<>>, selected_index |-> 0]
          [] s = PH -> [_entities |-> <<>>, _listeners |-> <<>>, title |-> None,
                        instructions |-> None]
          [] s = CR -> [_entities |-> <<>>, _listeners |-> <<>>,
                        text_entities |-> <<>>]
          [] s = BJ -> [_entities |-> <<>>, _listeners |-> <<>>, deck |-> {},
                        player_hand |-> <<>>, dealer_hand |-> <<>>,
                        player_card_entities |-> <<>>,
                        dealer_card_entities |-> <<>>,
                        player_score |-> 0, dealer_score |-> 0,
                        game_state |-> "DEALING", dealer_card_hidden |-> TRUE,
                        dealer_last_action |-> 0,
                        dealer_hand_text |-> None, dealer_score_text |-> None,
                        deck_count |-> None, player_hand_text |-> None,
                        player_score_text |-> None, message_text |-> None,
                        hit_button |-> None, stand_button |-> None]
          [] s = SN -> [_entities |-> <<>>, _listeners |-> <<>>,
                        grid_width |-> GridWidth, grid_height |-> GridHeight,
                        snake_segments |-> <<>>, direction |-> RIGHT,
                        next_direction |-> RIGHT, food_entity |-> None,
                        score |-> 0, score_text |-> None, move_timer |-> 0,
                        is_game_over |-> FALSE, game_over_entities |-> <<>>]]

\* the state with the scene objects constructed as fields says
InitWith(fields) ==
    /\ entities = <<>>
    /\ ent = <<>>
    /\ colliders = <<>>
    /\ col = <<>>
    /\ \E steam \in BOOLEAN, music \in BOOLEAN : bus = EngineBuses(steam, music)
    /\ scenes = [n \in {"main_menu", "snake", "blackjack", "roadrunner"} |->
                    CASE n = "main_menu" -> MM
                      [] n = "snake" -> SN
                      [] n = "blackjack" -> BJ
                      [] n = "roadrunner" -> PH]
    /\ active_scene = NoScene
    /\ active_scene_name = NoScene
    /\ scn = fields
    /\ running = FALSE
    /\ last_tick = 0
    /\ pc = "setup"
    /\ held = {}
    /\ op = "init"
    /\ calls = <<>>
    /\ emitted = <<>>
    /\ switches = 0
    /\ made = [s \in SceneObjects |-> {}]
    /\ trace = <<>>
    /\ raised = NoError
    /\ subs = [p \in CallerBuses \X Listeners |-> 0]

Init == InitWith(SceneFields)

-----------------------------------------------------------------------------
(* Steps of the program.  A step runs one call with the random draws r; the *)
(* draws are found by running it and extending r wherever it runs dry.      *)

Run(cmd, r) ==
    CASE cmd.op = "set_active_scene" -> set_active_scene(WithRand(r), cmd.name)
      [] cmd.op = "frame" ->
             Frame([WithRand(r) EXCEPT !.queue = cmd.queue], cmd.milliseconds)

\* the worlds cmd can end in, over every sequence of draws that extends r
RECURSIVE Outcomes(_, _)
Extend(cmd, r, res) ==
    IF res.starved THEN UNION {Outcomes(cmd, Append(r, c)) : c \in res.ask}
    ELSE {res}

Outcomes(cmd, r) == Extend(cmd, r, Run(cmd, r))

\* scene_manager.set_active_scene("main_menu") of main.py
SetMainMenu ==
    /\ pc = "setup"
    /\ active_scene = NoScene
    /\ \E w \in Outcomes([op |-> "set_active_scene", name |-> "main_menu"], <<>>) :
          Store(Collect(w), "set_active_scene")

\* a start that does not look for an active scene
Start_anyway ==
    /\ pc = "setup"
    /\ Store([World EXCEPT !.running = TRUE, !.pc = "loop"], "start")

\* engine.start() up to the first iteration
Start ==
    /\ pc = "setup"
    /\ IF active_scene = NoScene
       THEN Store([World EXCEPT !.pc = "done"], "start")
       ELSE Store([World EXCEPT !.running = TRUE, !.pc = "loop"], "start")

\* the keys pressed and the clicks made in the frames of a run
Keys == {"K_ESCAPE", "K_s"}

Clicks == {[pos |-> p, button |-> 1] : p \in {"option1", "option4"}}

\* what pygame.event.get() returns in one frame
Queues ==
    {<<>>}
    \cup {<< [type |-> "KEYDOWN", key |-> k] >> : k \in Keys}
    \cup {<< [type |-> "MOUSEBUTTONDOWN", pos |-> c.pos, button |-> c.button] >> :
             c \in Clicks}

\* milliseconds between two frames
Dts == {400}

\* the program reads the clock only to subtract two readings, so the
\* origin of time is free: it is moved to the reading of the frame just run
Rebased(w) == [w EXCEPT !.last_tick = 0]

\* one iteration of the while loop of Engine.start, dt milliseconds after
\* the previous one
Tick(queue, dt) ==
    /\ pc = "loop"
    /\ running
    /\ \E w \in Outcomes([op |-> "frame", queue |-> queue,
                          milliseconds |-> last_tick + dt], <<>>) :
          /\ w.switches <= MaxSwitches
          /\ Store(Collect(Rebased(w)), "frame")

\* the loop condition fails: pygame.quit() and start returns
LoopExit ==
    /\ pc = "loop"
    /\ ~running
    /\ Store([World EXCEPT !.pc = "done"], "quit")

\* main.py from its first call on the scene manager
Next ==
    \/ SetMainMenu
    \/ Start
    \/ \E queue \in Queues, dt \in Dts : Tick(queue, dt)
    \/ LoopExit

Spec == Init /\ [][Next]_vars

-----------------------------------------------------------------------------
(* The scene manager driven by a client before the loop starts *)

\* scene_manager.register_scene("credits", CreditsScene(...)): the scene the
\* menu's "Credits" option names
RegisterScene ==
    /\ pc = "setup"
    /\ "credits" \notin DOMAIN scenes
    /\ Store(register_scene(World, "credits", CR), "register_scene")

SceneNames == {"main_menu", "snake", "blackjack", "roadrunner", "credits", "settings"}

\* scene_manager.set_active_scene(name)
SetActiveScene(name) ==
    /\ pc = "setup"
    /\ \E w \in Outcomes([op |-> "set_active_scene", name |-> name], <<>>) :
          /\ w.switches <= MaxApiSwitches
          /\ Store(Collect(w), "set_active_scene")

NextApi ==
    \/ RegisterScene
    \/ \E name \in SceneNames : SetActiveScene(name)

SpecApi == Init /\ [][NextApi]_vars

-----------------------------------------------------------------------------
(* The entity and collision interface driven by a client: entities made by *)
(* the three constructors the program uses, colliders assigned and         *)
(* replaced, entities moved, deactivated and destroyed, and the collision  *)
(* system updated.  The client keeps every entity it made (held).          *)

\* the scene object whose create_entity and destroy_entity the client calls
ApiScene == PH

Positions == {<<0, 0>>, <<5, 5>>, <<20, 20>>}

\* the client keeps the reference the call returned
Hold(w, e) == [w EXCEPT !.held = @ \cup {e}]

\* del entity.components[Transform]
remove_component(w, e, name) ==
    [w EXCEPT !.ent[e].components = [k \in DOMAIN @ \ {name} |-> @[k]]]

\* engine.new_entity(): the transform defaults to Transform(), at (0, 0)
NewEntity ==
    /\ Cardinality(DOMAIN ent) < MaxEntities
    /\ Store(Collect(Hold(new_entity(World, Transform(0, 0),
                                     Render("None", DrawDepth.DEFAULT)),
                          Fresh(World))),
             "call")

\* scene.create_entity(Entity, transform=, render=, events=), as
\* _create_card_entity and _spawn_food call it, and
\* scene.create_entity(TextEntity, ..., engine=, x=, y=)
CreateEntity(class) ==
    /\ Cardinality(DOMAIN ent) < MaxEntities
    /\ Store(Collect(Hold(create_entity(World, ApiScene, Transform(0, 0),
                                        IF class = "TextEntity"
                                        THEN Render("text", DrawDepth.UI)
                                        ELSE Render("None", DrawDepth.DEFAULT),
                                        FALSE),
                          Fresh(World))),
             "call")

\* what the client assigns to e.collider: None, or a new
\* BoxCollider(e, events, (10, 10))
Assignable(e) == {None, NewHandle(DOMAIN col)}

\* e.collider = c
SetCollider(e, c) ==
    Store(Collect(set_collider(IF c = None THEN World
                               ELSE BoxCollider_init(World, c, e, 10, 10),
                               e, c)),
          "call")

\* e.set_active(active)
SetActive(e, active) ==
    Store(Collect(set_active(World, e, active)), "call")

\* scene.destroy_entity(e)
DestroyEntity(e) ==
    Store(Collect(destroy_entity(World, ApiScene, e)), "call")

\* e.components[Transform].x, .y = pos
MoveEntity(e, pos) ==
    /\ HasTransform(World, e)
    /\ <<ent[e].components.Transform.x, ent[e].components.Transform.y>> # pos
    /\ Store(Collect(move_to(World, e, pos[1], pos[2])), "call")

\* del e.components[Transform]
RemoveTransform(e) ==
    /\ HasTransform(World, e)
    /\ Store(Collect(remove_component(World, e, "Transform")), "call")

\* engine.collision_system.update()
CollisionUpdate ==
    Store(Collect(CollisionSystem_update(World)), "update")

\* an engine built where neither the Steam client nor the mixer is available
InitApi == Init /\ bus = EngineBuses(FALSE, FALSE)

\* constructing entities, assigning colliders, deactivating and destroying
NextReg ==
    \/ NewEntity
    \/ \E class \in {"Entity", "TextEntity"} : CreateEntity(class)
    \/ \E e \in held : \E c \in Assignable(e) : SetCollider(e, c)
    \/ \E e \in held, active \in BOOLEAN : SetActive(e, active)
    \/ \E e \in held : DestroyEntity(e)

SpecReg == InitApi /\ [][NextReg]_vars

\* entities given colliders, moved about and swept by the collision system
NextCol ==
    \/ NewEntity
    \/ \E e \in held : SetCollider(e, NewHandle(DOMAIN col))
    \/ \E e \in held, active \in BOOLEAN : SetActive(e, active)
    \/ \E e \in held, pos \in Positions : MoveEntity(e, pos)
    \/ CollisionUpdate

SpecCol == InitApi /\ [][NextCol]_vars

\* entities that drop out of the sweep: deactivated, without a collider,
\* without a Transform, destroyed
NextFilter ==
    \/ NewEntity
    \/ \E e \in held : SetCollider(e, NewHandle(DOMAIN col))
    \/ \E e \in held, active \in BOOLEAN : SetActive(e, active)
    \/ \E e \in held : DestroyEntity(e)
    \/ \E e \in held : RemoveTransform(e)
    \/ CollisionUpdate

SpecFilter == InitApi /\ [][NextFilter]_vars

-----------------------------------------------------------------------------
(* Scene switching: what the log of a set_active_scene step shows.  A step *)
(* of SpecApi logs one call: calls[1] is its entry, the last entry its     *)
(* return, and between them the unload and load calls it made.             *)

\* the i-th logged entry is a set_active_scene call that has to switch away
\* from an active scene
Switching(i) ==
    /\ calls[i].op = "call"
    /\ calls[i].scene \in calls[i].snap.registered
    /\ calls[i].scene # calls[i].snap.active_scene_name
    /\ calls[i].snap.active_scene # NoScene

\* the i-th logged entry is a set_active_scene call with an unregistered name
\* or the name of the active scene
Idle(i) ==
    /\ calls[i].op = "call"
    /\ \/ calls[i].scene \notin calls[i].snap.registered
       \/ calls[i].scene = calls[i].snap.active_scene_name

\* some bus holds a bound method of scene object s
Listening(buses, s) ==
    \E b \in DOMAIN buses : \E k \in 1..Len(buses[b]) : buses[b][k][1] = s

\* C1: after set_active_scene(A) and then set_active_scene(B) has returned,
\* no entity that A's load() created is in engine.entities and no callback
\* that A subscribed is left on any bus
C1_SceneIsolation ==
    (op = "set_active_scene" /\ calls # <<>> /\ Switching(1)) =>
        /\ calls[1].snap.made[calls[1].snap.active_scene] \cap Range(entities) = {}
        /\ ~Listening(bus, calls[1].snap.active_scene)

\* C2: at every frame boundary after a scene switch, every entity of
\* engine.entities is tracked by the active scene
C2_OnlyActiveSceneEntities ==
    (pc = "loop" /\ switches >= 1 /\ active_scene # NoScene) =>
        \A i \in 1..Len(entities) : In(entities[i], scn[active_scene]._entities)

\* C3: a set_active_scene call that switches away from an active scene calls
\* the outgoing scene's unload() once, and only after it has returned the
\* incoming scene's load() once; when load() starts the outgoing scene tracks
\* no entity and no listener; afterwards the incoming scene is the active one
C3_UnloadBeforeLoad ==
    (op = "set_active_scene" /\ calls # <<>> /\ Switching(1)) =>
        /\ Len(calls) = 4
        /\ calls[2].op = "unload"
        /\ calls[2].scene = calls[1].snap.active_scene
        /\ calls[3].op = "load"
        /\ calls[3].scene = scenes[calls[1].scene]
        /\ calls[3].snap.tracked[calls[1].snap.active_scene] = 0
        /\ calls[4].op = "return"
        /\ calls[4].snap.active_scene = calls[3].scene
        /\ calls[4].snap.active_scene_name = calls[1].scene
        /\ active_scene = calls[3].scene

\* C3 witness: a switch away from an active scene has just been made
C3_Witness ==
    /\ op = "set_active_scene" /\ calls # <<>> /\ Switching(1)
    /\ calls[1].snap.active_scene = BJ
    /\ active_scene = MM

\* C4: set_active_scene with an unregistered name, or with the name of the
\* active scene, calls no unload() and no load() and leaves the active scene,
\* its name, engine.entities and every bus as they were
C4_IdleCall ==
    (op = "set_active_scene" /\ calls # <<>> /\ Idle(1)) =>
        /\ Len(calls) = 2
        /\ calls[2].op = "return"
        /\ calls[2].snap = calls[1].snap
        /\ active_scene = calls[1].snap.active_scene
        /\ active_scene_name = calls[1].snap.active_scene_name
        /\ entities = calls[1].snap.entities
        /\ bus = calls[1].snap.bus

\* C4 witness: both idle cases have happened with a scene active: the name
\* of the active scene, and the menu's unregistered target "credits"
C4_Witness ==
    /\ op = "set_active_scene" /\ calls # <<>> /\ Idle(1)
    /\ active_scene = MM
    /\ calls[1].scene = "credits"
    /\ entities # <<>>

-----------------------------------------------------------------------------
(* Collider registration *)

\* the registered colliders that were built for entity e
RegisteredOf(e) == {c \in Range(colliders) : col[c].parent = e}

\* C5: an entity's collider is registered exactly when the entity is active
\* and has a collider, whichever constructor made the entity
C5_RegisteredIffActive ==
    \A e \in DOMAIN ent :
        (ent[e].collider # None /\ In(ent[e].collider, colliders))
            <=> (ent[e].active /\ ent[e].collider # None)

\* C6: at most one of the colliders assigned to an entity is registered, and
\* none once the entity is deactivated or destroyed
C6_NoStaleCollider ==
    \A e \in DOMAIN ent :
        /\ Cardinality(RegisteredOf(e)) <= 1
        /\ (~ent[e].active \/ ~In(e, entities)) => RegisteredOf(e) = {}

-----------------------------------------------------------------------------
(* The collision sweep *)

\* the entities of engine.entities that are active and have a collider and a
\* Transform
Candidates ==
    {e \in Range(entities) :
        ent[e].active /\ ent[e].collider # None /\ HasTransform(World, e)}

PairwiseOverlapping ==
    \A a \in Candidates, b \in Candidates :
        a # b => intersects(World, ent[a].collider, ent[b].collider)

\* the events of the last update that report the entities a and b
EventsOf(a, b) ==
    {k \in 1..Len(emitted) : {emitted[k].entity_a, emitted[k].entity_b} = {a, b}}

\* C7: when the N candidates overlap pairwise, one update emits N(N-1)/2
\* events, exactly one for each unordered pair
C7_Completeness ==
    (op = "update" /\ PairwiseOverlapping) =>
        /\ 2 * Len(emitted) = Cardinality(Candidates) * (Cardinality(Candidates) - 1)
        /\ \A a \in Candidates, b \in Candidates :
               a # b => Cardinality(EventsOf(a, b)) = 1

\* C7 witness: an update over three pairwise overlapping candidates
C7_Witness ==
    /\ op = "update"
    /\ PairwiseOverlapping
    /\ Cardinality(Candidates) = 3
    /\ Len(emitted) = 3

\* an entity the sweep has to leave out
Excluded(e) ==
    \/ ~ent[e].active
    \/ ent[e].collider = None
    \/ ~HasTransform(World, e)
    \/ ~In(e, entities)

\* C8: an entity that is inactive, has no collider, has no Transform or is
\* not in engine.entities is in no event of an update
C8_FilterEveryUpdate ==
    op = "update" =>
        \A k \in 1..Len(emitted) :
            ~Excluded(emitted[k].entity_a) /\ ~Excluded(emitted[k].entity_b)

\* C8 witness: an update that reports a pair while some entity that was a
\* candidate material (it has a collider) is deactivated, and another entity
\* is destroyed or has lost its Transform
C8_Witness ==
    /\ op = "update"
    /\ Len(emitted) = 1
    /\ \E e \in DOMAIN ent :
          ent[e].collider # None /\ (~ent[e].active \/ ~In(e, entities)
                                     \/ ~HasTransform(World, e))

\* engine.entities is A, B, each active with a 10x10 collider, A at pa and
\* B at pb
TwoBoxes(pa, pb) ==
    /\ Len(entities) = 2
    /\ Candidates = {entities[1], entities[2]}
    /\ \A i \in 1..2 : /\ col[ent[entities[i]].collider].width = 10
                       /\ col[ent[entities[i]].collider].height = 10
                       /\ col[ent[entities[i]].collider].parent = entities[i]
    /\ ent[entities[1]].components.Transform = Transform(pa[1], pa[2])
    /\ ent[entities[2]].components.Transform = Transform(pb[1], pb[2])

\* C9: with A at (0,0) and B at (5,5) an update emits one event, for (A, B);
\* with B at (20,20) it emits none
C9_Scenario ==
    op = "update" =>
        /\ TwoBoxes(<<0, 0>>, <<5, 5>>) =>
               emitted = << [entity_a |-> entities[1], entity_b |-> entities[2],
                             collider_a |-> ent[entities[1]].collider,
                             collider_b |-> ent[entities[2]].collider] >>
        /\ TwoBoxes(<<0, 0>>, <<20, 20>>) => emitted = <<>>

\* C9 witness: B has been moved away and the update after it has run
C9_Witness ==
    op = "update" /\ TwoBoxes(<<0, 0>>, <<20, 20>>) /\ emitted = <<>>

\* C10: an update that follows an update with the entity list, the active
\* flags, the colliders and the positions unchanged emits the same events
C10_NoMemory ==
    [][(op = "update" /\ op' = "update" /\ UNCHANGED <<entities, ent, col, colliders>>)
          => emitted' = emitted]_vars

\* C10 witness: an update has reported the one overlapping pair among three
\* entities; the update that follows it finds the same entities
C10_Witness ==
    op = "update" /\ Len(emitted) = 1 /\ Len(entities) = 3

-----------------------------------------------------------------------------
(* BoxCollider.intersects as a function of two boxes: a caller places up   *)
(* to two entities, gives them box colliders of several sizes, removes a   *)
(* Transform, and asks one collider whether it intersects another.         *)

MaxBoxes == 2    \* entities placed for the intersection test

BoxPositions == {<<x, y>> : x \in 0..2, y \in 0..1}

BoxSizes == {<<0, 1>>, <<1, 1>>, <<2, 1>>, <<1, 2>>}

\* engine.new_entity(transform=Transform(x, y))
NewEntityAt(pos) ==
    /\ Cardinality(DOMAIN ent) < MaxBoxes
    /\ Store(Collect(Hold(new_entity(World, Transform(pos[1], pos[2]),
                                     Render("None", DrawDepth.DEFAULT)),
                          Fresh(World))),
             "call")

\* e.collider = BoxCollider(e, events, size), for an entity without a collider
SetBox(e, size) ==
    /\ ent[e].collider = None
    /\ Store(Collect(set_collider(BoxCollider_init(World, NewHandle(DOMAIN col), e,
                                                   size[1], size[2]),
                                  e, NewHandle(DOMAIN col))),
             "call")

\* a.collider.intersects(b.collider): the result is noted
Intersects(a, b) ==
    /\ ent[a].collider # None
    /\ ent[b].collider # None
    /\ Store(Collect(Observe(World, "intersects", <<a, b>>,
                             [result |-> intersects(World, ent[a].collider,
                                                    ent[b].collider)])),
             "intersects")

NextBox ==
    \/ \E pos \in BoxPositions : NewEntityAt(pos)
    \/ \E e \in held, size \in BoxSizes : SetBox(e, size)
    \/ \E e \in held : RemoveTransform(e)
    \/ \E a \in held, b \in held : Intersects(a, b)

SpecBox == InitApi /\ [][NextBox]_vars

\* the box of entity e: left, top, right, bottom
Left(e) == ent[e].components.Transform.x

Top(e) == ent[e].components.Transform.y

Right(e) == ent[e].components.Transform.x + col[ent[e].collider].width

Bottom(e) == ent[e].components.Transform.y + col[ent[e].collider].height

\* the last step asked whether the collider of a intersects the collider of b
Asked(a, b) == op = "intersects" /\ trace[1].who = <<a, b>>

\* C11: for two colliders whose parents have a Transform, intersects is true
\* exactly when the rectangles overlap strictly on both axes; boxes that only
\* touch along an edge do not intersect
C11_StrictOverlap ==
    \A a \in DOMAIN ent, b \in DOMAIN ent :
        (Asked(a, b) /\ HasTransform(World, a) /\ HasTransform(World, b)) =>
            /\ trace[1].args.result <=>
                   (/\ Left(a) < Right(b) /\ Right(a) > Left(b)
                    /\ Top(a) < Bottom(b) /\ Bottom(a) > Top(b))
            /\ (Right(a) = Left(b) \/ Bottom(a) = Top(b)) => ~trace[1].args.result

\* C11 witness: the test was made on two boxes that touch along a vertical
\* edge and share a range of y
C11_Witness ==
    \E a \in DOMAIN ent, b \in DOMAIN ent :
        /\ Asked(a, b) /\ HasTransform(World, a) /\ HasTransform(World, b)
        /\ Right(a) = Left(b) /\ Top(a) = Top(b) /\ Right(a) > Left(a)
        /\ ~trace[1].args.result

\* C12: a.intersects(b) equals b.intersects(a), for boxes of any position
\* and size, with or without a Transform on either parent
C12_Symmetry ==
    \A a \in DOMAIN ent, b \in DOMAIN ent :
        Asked(a, b) =>
            trace[1].args.result = intersects(World, ent[b].collider, ent[a].collider)

\* C12 witness: the test was made on two overlapping boxes of different
\* sizes at different positions
C12_Witness ==
    \E a \in DOMAIN ent, b \in DOMAIN ent :
        /\ Asked(a, b) /\ HasTransform(World, a) /\ HasTransform(World, b)
        /\ Left(a) # Left(b)
        /\ col[ent[a].collider].width # col[ent[b].collider].width
        /\ trace[1].args.result

\* C13: when either parent has no Transform, intersects returns False and
\* raises nothing
C13_NoTransform ==
    \A a \in DOMAIN ent, b \in DOMAIN ent :
        (Asked(a, b) /\ (~HasTransform(World, a) \/ ~HasTransform(World, b))) =>
            ~trace[1].args.result /\ raised = NoError

\* C13 witness: the test was made between a box at the origin and a box
\* whose parent has lost its Transform
C13_Witness ==
    \E a \in DOMAIN ent, b \in DOMAIN ent :
        /\ Asked(a, b) /\ HasTransform(World, a) /\ ~HasTransform(World, b)
        /\ Left(a) = 0 /\ Top(a) = 0 /\ Right(a) > 0

-----------------------------------------------------------------------------
(* The collider registry called directly: a caller makes entities with box *)
(* colliders and calls register_collider and unregister_collider with them *)

\* engine.collision_system.register_collider(c); the list before is noted
Register(c) ==
    Store(Collect(register_collider(
              Observe(World, "register_collider", c, [before |-> colliders]), c)),
          "register_collider")

\* engine.collision_system.unregister_collider(c)
Unregister(c) ==
    Store(Collect(unregister_collider(
              Observe(World, "unregister_collider", c, [before |-> colliders]), c)),
          "unregister_collider")

NextRegistry ==
    \/ NewEntity
    \/ CreateEntity("Entity")
    \/ \E e \in held : SetBox(e, <<10, 10>>)
    \/ \E c \in DOMAIN col : Register(c)
    \/ \E c \in DOMAIN col : Unregister(c)

SpecRegistry == InitApi /\ [][NextRegistry]_vars

\* C14: the registry holds each collider at most once; register leaves the
\* collider present (appended if it was absent, the list unchanged if it was
\* present), unregister leaves it absent (removed if it was present, the list
\* unchanged if it was absent) and raises nothing; no call changes the
\* presence of a collider it does not name
C14_IdempotentRegistry ==
    /\ \A i \in 1..Len(colliders), j \in 1..Len(colliders) :
           colliders[i] = colliders[j] => i = j
    /\ op = "register_collider" =>
           /\ raised = NoError
           /\ In(trace[1].who, colliders)
           /\ colliders = IF In(trace[1].who, trace[1].args.before)
                          THEN trace[1].args.before
                          ELSE Append(trace[1].args.before, trace[1].who)
    /\ op = "unregister_collider" =>
           /\ raised = NoError
           /\ ~In(trace[1].who, colliders)
           /\ LET Other(c) == c # trace[1].who
              IN  colliders = SelectSeq(trace[1].args.before, Other)

\* C14 witness: a collider that was registered has been registered again,
\* beside another registered collider
C14_Witness ==
    /\ op = "register_collider"
    /\ In(trace[1].who, trace[1].args.before)
    /\ Len(colliders) = 2

-----------------------------------------------------------------------------
(* EventBus and Scene.subscribe/unsubscribe called directly, with the      *)
(* caller's own listeners, on buses no part of the engine listens to       *)

MaxListeners == 3    \* listeners on one bus

EmitArgs == {[key |-> "K_a"], [key |-> "K_b"]}

\* engine.events.<b>.subscribe(l)
Subscribe(b, l) ==
    /\ Len(bus[b]) < MaxListeners
    /\ Store([subscribe(Observe(World, "subscribe", <<b, l>>, [before |-> bus[b]]),
                        b, l) EXCEPT !.subs[<<b, l>>] = @ + 1],
             "subscribe")

\* an unsubscribe call that returned is counted
Returned(w, b, l) ==
    IF w.raised = NoError THEN [w EXCEPT !.subs[<<b, l>>] = @ - 1] ELSE w

\* engine.events.<b>.unsubscribe(l)
Unsubscribe(b, l) ==
    Store(Returned(unsubscribe(Observe(World, "unsubscribe", <<b, l>>,
                                       [before |-> bus[b]]), b, l), b, l),
          "unsubscribe")

\* engine.events.<b>.emit(**args)
Emit(b, args) ==
    Store(Collect(emit(World, b, args)), "emit")

\* scene.subscribe(engine.events.<b>, l)
SceneSubscribe(b, l) ==
    /\ Len(bus[b]) < MaxListeners
    /\ Len(scn[ApiScene]._listeners) < MaxListeners
    /\ Store([Scene_subscribe(Observe(World, "subscribe", <<b, l>>,
                                      [before |-> bus[b]]),
                              ApiScene, b, l) EXCEPT !.subs[<<b, l>>] = @ + 1],
             "scene_subscribe")

\* scene.unsubscribe(engine.events.<b>, l)
SceneUnsubscribe(b, l) ==
    Store(Returned(Scene_unsubscribe(Observe(World, "unsubscribe", <<b, l>>,
                                             [before |-> bus[b]]),
                                     ApiScene, b, l), b, l),
          "scene_unsubscribe")

\* unsubscribe called freely, also for listeners that are not on the bus
NextUnsub ==
    \/ \E l \in Listeners : Subscribe("key_up", l)
    \/ \E l \in Listeners : Unsubscribe("key_up", l)
    \/ \E l \in Listeners : SceneSubscribe("key_up", l)
    \/ \E l \in Listeners : SceneUnsubscribe("key_up", l)

SpecUnsub == InitApi /\ [][NextUnsub]_vars

\* C15: EventBus.unsubscribe, and Scene.unsubscribe, of a listener that is
\* not on the bus raises nothing and leaves the listener list as it was
C15_AbsentIsNoOp ==
    (op \in {"unsubscribe", "scene_unsubscribe"}
        /\ ~In(trace[1].who[2], trace[1].args.before)) =>
            /\ raised = NoError
            /\ bus[trace[1].who[1]] = trace[1].args.before

-----------------------------------------------------------------------------
(* The buses: subscribe, unsubscribe of a listener that is on the bus,     *)
(* and emit                                                                *)

NextBus ==
    \/ \E b \in CallerBuses, l \in Listeners : Subscribe(b, l)
    \/ \E b \in CallerBuses, l \in Listeners : In(l, bus[b]) /\ Unsubscribe(b, l)
    \/ \E b \in CallerBuses, args \in EmitArgs : Emit(b, args)

SpecBus == InitApi /\ [][NextBus]_vars

\* the listeners the last emit invoked, in order, with what each received
Invoked == SubSeq(trace, 2, Len(trace))

\* C16: an emit whose listeners leave the bus alone has invoked, when it
\* returns, every listener of the bus once per subscription, in subscription
\* order, each with the keyword arguments of the emit
C16_EmitInOrder ==
    op = "emit" =>
        Invoked = [k \in 1..Len(bus[trace[1].who]) |->
                      [op |-> "listener", who |-> bus[trace[1].who][k],
                       args |-> trace[1].args]]

\* C16 witness: an emit on a bus with three subscriptions of two listeners
C16_Witness ==
    /\ op = "emit"
    /\ Len(bus["key_up"]) = 3
    /\ bus["key_up"][1] # bus["key_up"][2]
    /\ Len(trace) = 4

\* the number of times l occurs in the list q
Count(q, l) == Cardinality({k \in 1..Len(q) : q[k] = l})

\* q without its i-th element
Without(q, i) == SubSeq(q, 1, i - 1) \o SubSeq(q, i + 1, Len(q))

\* C17: an emit invokes a listener as many times as it was subscribed minus
\* the times it was unsubscribed; subscribe appends also a listener that is
\* already there; unsubscribe removes the earliest occurrence only and keeps
\* the order of the rest
C17_NoDeduplication ==
    /\ op = "emit" =>
           \A l \in Listeners :
               Cardinality({k \in 1..Len(Invoked) : Invoked[k].who = l})
                   = subs[<<trace[1].who, l>>]
    /\ op = "subscribe" =>
           bus[trace[1].who[1]] = Append(trace[1].args.before, trace[1].who[2])
    /\ op = "unsubscribe" =>
           \E i \in 1..Len(trace[1].args.before) :
               /\ trace[1].args.before[i] = trace[1].who[2]
               /\ \A j \in 1..(i - 1) : trace[1].args.before[j] # trace[1].who[2]
               /\ bus[trace[1].who[1]] = Without(trace[1].args.before, i)

\* C17 witness: a listener subscribed twice around another one has been
\* unsubscribed once and is still on the bus, behind the other
C17_Witness ==
    /\ op = "unsubscribe"
    /\ Len(trace[1].args.before) = 3
    /\ trace[1].args.before[1] = trace[1].who[2]
    /\ trace[1].args.before[3] = trace[1].who[2]
    /\ trace[1].args.before[2] # trace[1].who[2]
    /\ subs[trace[1].who] = 1

-----------------------------------------------------------------------------
(* Scene.subscribe, Scene.unsubscribe and Scene.unsubscribe_all called on  *)
(* one scene, each unsubscribe for a pair the scene tracks                 *)

\* the unsubscribe calls that unsubscribe_all made and that returned are
\* counted: as many as occurrences left the buses
Counted(w, before) ==
    [w EXCEPT !.subs = [p \in DOMAIN @ |->
        @[p] - (Count(before[p[1]], p[2]) - Count(w.bus[p[1]], p[2]))]]

\* scene.unsubscribe_all()
UnsubscribeAll ==
    Store(Counted(Note(unsubscribe_all(Note(World, "call", ApiScene), ApiScene),
                       "unsubscribe_all", ApiScene), bus),
          "unsubscribe_all")

NextTrack ==
    \/ \E b \in CallerBuses, l \in Listeners : SceneSubscribe(b, l)
    \/ \E b \in CallerBuses, l \in Listeners :
          In(<<b, l>>, scn[ApiScene]._listeners) /\ SceneUnsubscribe(b, l)
    \/ UnsubscribeAll

SpecTrack == InitApi /\ [][NextTrack]_vars

\* C19: after any sequence of Scene.subscribe and matching Scene.unsubscribe
\* calls the scene tracks a pair (bus, listener) exactly as many times as
\* the listener is on that bus, the other buses are as the engine made
\* them, and unsubscribe_all leaves every bus as it was before the scene
\* subscribed anything
C19_TrackingEqualsLive ==
    /\ \A b \in CallerBuses, l \in Listeners :
           Count(bus[b], l) = Count(scn[ApiScene]._listeners, <<b, l>>)
    /\ \A b \in DOMAIN bus :
           Len(bus[b]) = Len(EngineBuses(FALSE, FALSE)[b])
               + Cardinality({i \in 1..Len(scn[ApiScene]._listeners) :
                                 scn[ApiScene]._listeners[i][1] = b})
    /\ op = "unsubscribe_all" =>
           /\ raised = NoError
           /\ scn[ApiScene]._listeners = <<>>
           /\ bus = EngineBuses(FALSE, FALSE)

\* C19 witness: unsubscribe_all has returned for a scene that tracked one
\* listener twice on one bus and another listener on a second bus
C19_Witness ==
    /\ op = "unsubscribe_all"
    /\ \E b \in CallerBuses, l \in Listeners :
           /\ Count(trace[1].args.listeners, <<b, l>>) = 2
           /\ \E c \in CallerBuses \ {b}, m \in Listeners \ {l} :
                  In(<<c, m>>, trace[1].args.listeners)
           /\ Count(trace[1].args.bus[b], l) = 2

-----------------------------------------------------------------------------
(* Scene.destroy_entity called on entities in every state of tracking,     *)
(* listing, activity and collider, on an entity it has destroyed before    *)
(* and on an object that is no entity                                      *)

MaxSceneEntities == 2    \* entities the caller makes for one scene

\* scene.add_entity(e)
AddEntity(e) ==
    Store(Collect(add_entity(World, ApiScene, e)), "call")

\* scene.destroy_entity(e); the three lists before the call are noted
Destroy(e) ==
    Store(Collect(destroy_entity(
              Observe(World, "destroy_entity", <<e>>,
                      [entities |-> entities,
                       tracked |-> scn[ApiScene]._entities,
                       colliders |-> colliders]),
              ApiScene, e)),
          "destroy_entity")

NextDestroy ==
    \/ Cardinality(DOMAIN ent) < MaxSceneEntities /\ NewEntity
    \/ Cardinality(DOMAIN ent) < MaxSceneEntities /\ CreateEntity("Entity")
    \/ \E e \in held : AddEntity(e)
    \/ \E e \in held : SetBox(e, <<10, 10>>)
    \/ \E e \in held, a \in BOOLEAN : SetActive(e, a)
    \/ \E e \in held \cup {NotAnEntity} : Destroy(e)

SpecDestroy == InitApi /\ [][NextDestroy]_vars

\* the entity a destroy_entity call was given, and the lists it found
Destroyed == trace[1].who[1]

Found == trace[1].args

\* C20: destroy_entity raises nothing and leaves e in neither the scene's
\* list nor engine.entities, the other elements of both lists staying in
\* place.  If e was in engine.entities, set_active(False) had returned,
\* with e inactive and its collider unregistered, while e was still in
\* engine.entities.  If e was in neither list (destroyed before, or not an
\* entity) nothing is deactivated and no list changes.
C20_DestroyEntity ==
    op = "destroy_entity" =>
        LET Other(x) == x # Destroyed
        IN  /\ raised = NoError
            /\ entities = SelectSeq(Found.entities, Other)
            /\ scn[ApiScene]._entities = SelectSeq(Found.tracked, Other)
            /\ ~In(Destroyed, entities)
            /\ ~In(Destroyed, scn[ApiScene]._entities)
            /\ In(Destroyed, Found.entities) =>
                   /\ Len(trace) = 2
                   /\ trace[2].op = "deactivated"
                   /\ trace[2].who = <<Destroyed>>
                   /\ trace[2].args = [listed |-> TRUE, active |-> FALSE,
                                       registered |-> FALSE]
                   /\ ~ent[Destroyed].active
                   /\ ~In(ent[Destroyed].collider, colliders)
            /\ (~In(Destroyed, Found.entities)
                    /\ ~In(Destroyed, Found.tracked)) =>
                   /\ Len(trace) = 1
                   /\ entities = Found.entities
                   /\ scn[ApiScene]._entities = Found.tracked
                   /\ colliders = Found.colliders

\* C20 witness: an active, tracked entity with a registered collider has
\* been destroyed
C20_Witness ==
    /\ op = "destroy_entity"
    /\ In(Destroyed, Found.entities)
    /\ In(Destroyed, Found.tracked)
    /\ In(ent[Destroyed].collider, Found.colliders)
    /\ Len(Found.entities) = 2

\* an entity destroyed before is destroyed again
C20_Again ==
    /\ op = "destroy_entity"
    /\ Destroyed \in held
    /\ ~In(Destroyed, Found.entities) /\ ~In(Destroyed, Found.tracked)
    /\ Found.colliders # <<>>

\* destroy_entity is given an object that is no entity
C20_NotAnEntity ==
    /\ op = "destroy_entity"
    /\ Destroyed = NotAnEntity
    /\ Found.entities # <<>> /\ Found.tracked # <<>>

-----------------------------------------------------------------------------
(* Scene.unload of the base class, called on a scene that tracks entities  *)
(* and subscriptions on several buses                                      *)

MaxTracked == 2    \* subscriptions the scene tracks

\* scene.unload(), for a scene class whose unload is the base class's
Unload ==
    Store(Collect(Counted(Scene_unload(World, ApiScene), bus)), "unload")

\* some listener of key_up was subscribed directly, not by the scene
Direct ==
    Len(bus.key_up) > Cardinality({i \in 1..Len(scn[ApiScene]._listeners) :
                                      scn[ApiScene]._listeners[i][1] = "key_up"})

NextUnload ==
    \/ Cardinality(DOMAIN ent) < MaxSceneEntities /\ NewEntity
    \/ Cardinality(DOMAIN ent) < MaxSceneEntities /\ CreateEntity("Entity")
    \/ \E e \in held : AddEntity(e)
    \/ \E e \in held : SetActive(e, TRUE)
    \/ \E e \in held : DestroyEntity(e)
    \/ \E b \in CallerBuses, l \in Listeners :
          Len(scn[ApiScene]._listeners) < MaxTracked /\ SceneSubscribe(b, l)
    \/ \E l \in Listeners : ~Direct /\ Subscribe("key_up", l)
    \/ Unload

SpecUnload == InitApi /\ [][NextUnload]_vars

\* the notes of an unload: at its entry, when unsubscribe_all has returned
\* and when destroy_all_entities has returned
AtEntry == trace[1]

Unsubscribed ==
    CHOOSE n \in Range(trace) : n.op = "unsubscribe_all"

\* an unload has run its two calls in the order of the code: every tracked
\* pair is off its bus and untracked while the entities are still as they
\* were at entry, and the lists are both empty at the end
UnloadInOrder ==
    /\ Len(trace) >= 3
    /\ AtEntry.op = "unload"
    /\ trace[2].op = "unsubscribe_all"
    /\ trace[2].args.listeners = <<>>
    /\ trace[2].args.entities = AtEntry.args.entities
    /\ trace[Len(trace)].op = "destroy_all_entities"
    /\ \A i \in 3..(Len(trace) - 1) : trace[i].op = "deactivated"
    /\ scn[ApiScene]._listeners = <<>>
    /\ scn[ApiScene]._entities = <<>>

\* every subscription the scene tracked is off its bus: each bus has lost
\* as many occurrences of a listener as the scene tracked for it
SubscriptionsRemoved ==
    \A b \in DOMAIN bus :
        /\ Len(bus[b]) = Len(AtEntry.args.bus[b])
              - Cardinality({i \in 1..Len(AtEntry.args.listeners) :
                                AtEntry.args.listeners[i][1] = b})
        /\ \A l \in Listeners :
              Count(bus[b], l) = Count(AtEntry.args.bus[b], l)
                  - Count(AtEntry.args.listeners, <<b, l>>)
        /\ bus[b] = Unsubscribed.args.bus[b]

-----------------------------------------------------------------------------
(* Scene.create_entity called with every kind of factory, on a scene and   *)
(* an engine that may hold the factory's result already                    *)

\* what the caller passes as entity_class
Factories ==
    {[kind |-> "Entity", transform |-> Transform(0, 0),
      render |-> Render("None", DrawDepth.DEFAULT), collision_system |-> FALSE],
     [kind |-> "new_entity"], [kind |-> "GameObject"]}
    \cup {[kind |-> "existing", entity |-> e] : e \in held}

\* the call makes an entity
Makes(factory) == factory.kind \in {"Entity", "new_entity"}

\* scene.create_entity(factory); the result and the two lists before the
\* call are noted, and the caller keeps the entity it was returned
Create(factory) ==
    /\ Makes(factory) => Cardinality(DOMAIN ent) < MaxSceneEntities
    /\ LET r == Instance(World, factory)
           keep(v) == IF v.raised = NoError THEN Hold(v, r) ELSE v
       IN  Store(Collect(keep(create_entity_from(
                     Observe(World, "create_entity", <<r>>,
                             [entities |-> entities,
                              tracked |-> scn[ApiScene]._entities,
                              colliders |-> colliders]),
                     ApiScene, factory))),
                 "create_entity")

NextCreate ==
    \/ Cardinality(DOMAIN ent) < MaxSceneEntities /\ NewEntity
    \/ \E factory \in Factories : Create(factory)
    \/ \E e \in held : AddEntity(e)
    \/ \E e \in held : DestroyEntity(e)

SpecCreate == InitApi /\ [][NextCreate]_vars

\* the object the factory of a create_entity call returned
Created == trace[1].who[1]

\* C21: when the factory's result is not an Entity, create_entity raises
\* TypeError and leaves engine.entities and the scene's list as they were;
\* otherwise it raises nothing and the entity is exactly once in each list
\* (appended where it was absent, the list unchanged where it was present)
C21_CreateEntity ==
    op = "create_entity" =>
        IF Created = NotAnEntity
        THEN /\ raised = "TypeError"
             /\ entities = Found.entities
             /\ scn[ApiScene]._entities = Found.tracked
        ELSE /\ raised = NoError
             /\ Count(entities, Created) = 1
             /\ Count(scn[ApiScene]._entities, Created) = 1
             /\ entities = IF In(Created, Found.entities) THEN Found.entities
                           ELSE Append(Found.entities, Created)
             /\ scn[ApiScene]._entities =
                    IF In(Created, Found.tracked) THEN Found.tracked
                    ELSE Append(Found.tracked, Created)

\* C21 witness: create_entity has returned an entity that was in
\* engine.entities, beside another one, before the call
C21_Witness ==
    /\ op = "create_entity"
    /\ Created # NotAnEntity
    /\ In(Created, Found.entities)
    /\ ~In(Created, Found.tracked)
    /\ Len(entities) = 2

\* create_entity has raised TypeError with both lists non-empty
C21_Raised ==
    /\ op = "create_entity"
    /\ raised = "TypeError"
    /\ entities # <<>> /\ scn[ApiScene]._entities # <<>>

-----------------------------------------------------------------------------
(* main.py with the player at the keyboard and the mouse: every menu       *)
(* option chosen by key or by click, ESC pressed in every scene, the       *)
(* window closed, frames of unequal length.  The clock is kept as the      *)
(* program reads it.                                                       *)

MaxClock == 1000     \* pygame.time.get_ticks() at the last frame of a run

\* the keys pressed and the clicks made
LoopKeys == {"K_RETURN", "K_DOWN", "K_ESCAPE"}

LoopClicks ==
    {[pos |-> p, button |-> 1] : p \in {"option0", "option1", "option2", "option4"}}

KeyDown(k) == [type |-> "KEYDOWN", key |-> k]

\* what pygame.event.get() returns in one frame: nothing, one event, or a
\* key that moves the selection followed by the key that selects
LoopQueues ==
    {<<>>, << [type |-> "QUIT"] >>}
    \cup {<< KeyDown(k) >> : k \in LoopKeys}
    \cup {<< [type |-> "MOUSEBUTTONDOWN", pos |-> c.pos, button |-> c.button] >> :
             c \in LoopClicks}
    \cup {<< KeyDown("K_DOWN"), KeyDown("K_RETURN") >>}

\* milliseconds between two frames
LoopDts == {300, 400}

\* one iteration of the while loop of Engine.start, dt milliseconds after
\* the previous reading of the clock
Iteration(queue, dt) ==
    /\ pc = "loop"
    /\ running
    /\ last_tick + dt <= MaxClock
    /\ \E w \in Outcomes([op |-> "frame", queue |-> queue,
                          milliseconds |-> last_tick + dt], <<>>) :
          Store(Collect(w), "frame")

NextLoop ==
    \/ SetMainMenu
    \/ Start
    \/ \E queue \in LoopQueues, dt \in LoopDts : Iteration(queue, dt)
    \/ LoopExit

SpecLoop == Init /\ [][NextLoop]_vars

\* the calls of scene.update(dt) made in the last frame, as places in its trace
UpdatesOf(s) == {k \in DOMAIN trace : trace[k].op = "update" /\ trace[k].who = s}

\* the dt the last frame emitted tick with
TickDt ==
    trace[CHOOSE k \in DOMAIN trace :
              trace[k].op = "emit" /\ trace[k].who = "tick"].args.dt

\* C22: in every frame the active scene's update(dt) is invoked exactly once,
\* with the dt of that frame's tick, and no other scene's update is invoked
C22_UpdateOncePerFrame ==
    (op = "frame" /\ active_scene # NoScene) =>
        \A s \in SceneObjects :
            /\ Cardinality(UpdatesOf(s)) = (IF s = active_scene THEN 1 ELSE 0)
            /\ \A k \in UpdatesOf(s) : trace[k].args.dt = TickDt

\* the phases of Engine.start's loop body among the notes of the last step
IsPhase(n) ==
    \/ n.op \in {"draw_overlay", "draw"}
    \/ n.op = "emit" /\ n.who \in {"pre_tick", "tick", "late_tick"}

Phases == SelectSeq(trace, IsPhase)

\* every phase once, in the order of the loop body, the overlay being that
\* of the scene active when it is drawn
PhasesInOrder ==
    /\ [k \in DOMAIN Phases |-> <<Phases[k].op, Phases[k].who>>]
           = << <<"emit", "pre_tick">>, <<"emit", "tick">>, <<"emit", "late_tick">>,
                <<"draw_overlay", active_scene>>, <<"draw", "Screen">> >>
    /\ IsPhase(trace[1])
    /\ trace[Len(trace)].op = "draw"

\* C23: an iteration of the loop emits pre_tick, then tick with the time
\* since the previous reading of the clock, then late_tick, then draws the
\* overlay of the active scene, then presents the screen, each once; the
\* iteration starts with pre_tick and nothing follows the present
C23_FrameOrder ==
    [][op' = "frame" => PhasesInOrder' /\ TickDt' = last_tick' - last_tick]_vars

\* C23 witness: a second frame, shorter than the first one
C23_Witness ==
    /\ op = "frame"
    /\ last_tick = 700
    /\ TickDt = 300
    /\ Len(Phases) = 5

\* the place of the collision sweep in the trace of the last frame
Sweeps ==
    {k \in DOMAIN trace : /\ trace[k].op = "listener"
                          /\ trace[k].who = <<"CollisionSystem", "update">>}

\* a callback of a scene: its update, or one of its listeners invoked with
\* a key or a click
SceneCallbacks ==
    {k \in DOMAIN trace :
        \/ trace[k].op = "update"
        \/ /\ trace[k].op = "listener"
           /\ trace[k].who[1] \in SceneObjects
           /\ trace[k].who[2] \in {"handle_input", "handle_mouse_click"}}

\* C24: in every frame the collision sweep runs once, and before every
\* callback of a scene: its update and its key and mouse listeners
C24_SweepBeforeCallbacks ==
    op = "frame" =>
        /\ Cardinality(Sweeps) = 1
        /\ \A k \in SceneCallbacks : \A c \in Sweeps : c < k

\* C25: a frame in which Engine.exit() was called runs all its phases, and
\* the step after it leaves the loop: no other frame begins
C25_Shutdown ==
    [][/\ (op' = "frame" /\ ~running') => PhasesInOrder'
       /\ (pc = "loop" /\ ~running) => (op' = "quit" /\ pc' = "done")]_vars

\* C25 witness: the loop left after a frame in which the menu's Quit option
\* was selected
C25_Witness ==
    /\ op = "quit"
    /\ pc = "done"
    /\ ~running
    /\ scn[MM].selected_index = 4

\* a frame that read a quit event ran to its end with running false
C25_QuitEvent ==
    /\ op = "frame"
    /\ ~running
    /\ \E k \in DOMAIN trace : trace[k].op = "emit" /\ trace[k].who = "quit"
    /\ trace[Len(trace)].op = "draw"

\* an emit made by the loop body or by process_events: none of them is
\* made while another one is in progress
IsTopEmit(n) ==
    n.op = "emit" /\ n.who \in {"pre_tick", "tick", "late_tick", "quit",
                                "key_down", "key_up", "mouse_button_down"}

\* the place of the first such emit after place k of the trace, or the
\* place behind the trace
NextEmit(k) ==
    IF \E e \in (k + 1)..Len(trace) : IsTopEmit(trace[e])
    THEN CHOOSE e \in (k + 1)..Len(trace) :
             /\ IsTopEmit(trace[e])
             /\ \A d \in (k + 1)..(e - 1) : ~IsTopEmit(trace[d])
    ELSE Len(trace) + 1

\* the scenes loaded in the last step, as places in its trace
Loads == {k \in DOMAIN trace : trace[k].op = "load"}

\* C30: from the moment a scene is loaded until the emit in progress has
\* returned, no listener of that scene is invoked: the key or the click
\* that made the switch does not reach the incoming scene
C30_SwitchNotDelivered ==
    \A k \in Loads :
        \A m \in (k + 1)..(NextEmit(k) - 1) :
            ~(trace[m].op = "listener" /\ trace[m].who[1] = trace[k].who)

\* C30 witness: ESC in the snake scene with the music system listening on
\* key_down too; the menu is loaded and its key listener is on the bus
C30_Witness ==
    /\ op = "frame"
    /\ \E k \in Loads :
           /\ trace[k].who = MM
           /\ \E j \in 1..(k - 1) : /\ trace[j].op = "listener"
                                   /\ trace[j].who = <<SN, "handle_input">>
    /\ bus["key_down"] = << <<"MusicSystem", "handle_input">>, <<MM, "handle_input">> >>

\* a switch made by a click, without the music system
C30_Click ==
    /\ op = "frame"
    /\ \E k \in Loads :
           /\ trace[k].who = BJ
           /\ \E j \in 1..(k - 1) : /\ trace[j].op = "listener"
                                   /\ trace[j].who = <<MM, "handle_mouse_click">>
    /\ bus["mouse_button_down"] = << <<BJ, "handle_mouse_click">> >>

-----------------------------------------------------------------------------
(* The render system driven by a client: entities made with a texture at   *)
(* any depth, each then spoiled in at most one way, and the render system  *)
(* updated                                                                 *)

\* the depths of the entities the client makes: every member of DrawDepth
RenderDepths == {DrawDepth[d] : d \in DOMAIN DrawDepth}

\* engine.new_entity(render=Render(surface, draw_depth=depth))
NewDrawable(depth) ==
    /\ Cardinality(DOMAIN ent) < MaxEntities
    /\ Store(Collect(Hold(new_entity(World, Transform(0, 0),
                                     Render("surface", depth)),
                          Fresh(World))),
             "call")

\* e.set_visible(False)
SetVisible(e) ==
    /\ Drawable(World, e)
    /\ Store(Collect(set_visible(World, e, FALSE)), "call")

\* e.set_texture(None)
SetTexture(e) ==
    /\ Drawable(World, e)
    /\ Store(Collect(set_texture(World, e, "None")), "call")

\* e.set_active(False)
Deactivate(e) ==
    /\ Drawable(World, e)
    /\ SetActive(e, FALSE)

\* del e.components[Transform], del e.components[Render]
RemoveComponent(e, name) ==
    /\ Drawable(World, e)
    /\ Store(Collect(remove_component(World, e, name)), "call")

\* engine.render_system.update()
RenderUpdate ==
    Store(Collect(RenderSystem_update(World)), "render")

NextRender ==
    \/ \E depth \in RenderDepths : NewDrawable(depth)
    \/ \E e \in held : SetVisible(e)
    \/ \E e \in held : SetTexture(e)
    \/ \E e \in held : Deactivate(e)
    \/ \E e \in held, name \in {"Transform", "Render"} : RemoveComponent(e, name)
    \/ RenderUpdate

SpecRender == InitApi /\ [][NextRender]_vars

\* the entities the last step blitted, in the order of the blits
RECURSIVE BlitsFrom(_)
BlitsFrom(i) ==
    IF i > Len(trace) THEN <<>>
    ELSE (IF trace[i].op = "blit" THEN <<trace[i].who[1]>> ELSE <<>>)
         \o BlitsFrom(i + 1)

Blitted == BlitsFrom(1)

\* the place of e in engine.entities
Place(e) == CHOOSE k \in DOMAIN entities : entities[k] = e

DepthOf(e) == ent[e].components.Render.draw_depth

\* C26: update blits in ascending draw depth, entities of equal depth in
\* the order of engine.entities; entities listed with the depths UI,
\* BACKGROUND, OBJECT are blitted second, third, first
C26_DrawOrder ==
    op = "render" =>
        /\ \A i \in DOMAIN Blitted : \A j \in DOMAIN Blitted :
               i < j =>
                   \/ DepthOf(Blitted[i]) < DepthOf(Blitted[j])
                   \/ /\ DepthOf(Blitted[i]) = DepthOf(Blitted[j])
                      /\ Place(Blitted[i]) < Place(Blitted[j])
        /\ (/\ Len(Blitted) = 3
            /\ [k \in 1..3 |-> DepthOf(entities[k])]
                   = <<DrawDepth.UI, DrawDepth.BACKGROUND, DrawDepth.OBJECT>>)
           => Blitted = <<entities[2], entities[3], entities[1]>>

\* C26 witness: three entities blitted, two of them of equal depth and
\* listed behind one of a greater depth
C26_Witness ==
    /\ op = "render"
    /\ Len(Blitted) = 3
    /\ [k \in 1..3 |-> DepthOf(entities[k])]
           = <<DrawDepth.UI, DrawDepth.OBJECT, DrawDepth.OBJECT>>

\* the scenario of the depths UI, BACKGROUND, OBJECT
C26_Scenario ==
    /\ op = "render"
    /\ Len(Blitted) = 3
    /\ [k \in 1..3 |-> DepthOf(entities[k])]
           = <<DrawDepth.UI, DrawDepth.BACKGROUND, DrawDepth.OBJECT>>
    /\ Blitted = <<entities[2], entities[3], entities[1]>>

\* C27: update blits exactly the entities of engine.entities that are
\* active, have a Transform and a Render, are visible and have a texture,
\* and each of them once
C27_DrawnSet ==
    op = "render" =>
        /\ Range(Blitted) =
               {e \in Range(entities) :
                   /\ ent[e].active
                   /\ "Transform" \in DOMAIN ent[e].components
                   /\ "Render" \in DOMAIN ent[e].components
                   /\ ent[e].components.Render.visible
                   /\ ent[e].components.Render.texture # "None"}
        /\ Cardinality(Range(Blitted)) = Len(Blitted)

\* C27 witness: one entity blitted beside an inactive one and an invisible
\* one
C27_Witness ==
    /\ op = "render"
    /\ Len(entities) = 3
    /\ Len(Blitted) = 1
    /\ \E e \in Range(entities) : ~ent[e].active
    /\ \E e \in Range(entities) :
           /\ "Render" \in DOMAIN ent[e].components
           /\ ~ent[e].components.Render.visible

-----------------------------------------------------------------------------
(* The component map of an entity: components inserted by the constructor  *)
(* and by a client, over one that is there or not                          *)

\* what the client inserts, by kind
Insertable ==
    [Transform |-> {Transform(0, 0), Transform(5, 5)},
     Render |-> {Render("surface", DrawDepth.OBJECT), Render("None", DrawDepth.DEFAULT)}]

\* e.components[kind] = component; the kinds e had are noted
InsertComponent(e, kind, component) ==
    Store(Collect(Observe(insert_component(World, e, kind, component), "insert",
                          <<e>>, [kind |-> kind, component |-> component,
                                  before |-> DOMAIN ent[e].components])),
          "insert")

NextComponents ==
    \/ NewEntity
    \/ \E e \in held, kind \in DOMAIN Insertable :
           \E component \in Insertable[kind] : InsertComponent(e, kind, component)
    \/ \E e \in held : RemoveTransform(e)

SpecComponents == InitApi /\ [][NextComponents]_vars

\* the entity of the last insert
Inserted == trace[1].who[1]

\* C28: an insert leaves the entity with the inserted component as its
\* only component of that kind, whether one was there or not, and with its
\* components of the other kinds as they were; the constructor leaves one
\* Transform and one Render, those it was given
C28_ComponentUniqueness ==
    [][/\ op' = "insert" =>
            /\ ent'[Inserted'].components[trace'[1].args.kind]
                   = trace'[1].args.component
            /\ DOMAIN ent'[Inserted'].components
                   = DOMAIN ent[Inserted'].components \cup {trace'[1].args.kind}
            /\ \A k \in DOMAIN ent[Inserted'].components \ {trace'[1].args.kind} :
                   ent'[Inserted'].components[k] = ent[Inserted'].components[k]
       /\ \A e \in DOMAIN ent' \ DOMAIN ent :
            ent'[e].components = [Transform |-> Transform(0, 0),
                                  Render |-> Render("None", DrawDepth.DEFAULT)]
      ]_vars

\* C28 witness: a Transform inserted over another one
C28_Witness ==
    /\ op = "insert"
    /\ trace[1].args.kind = "Transform"
    /\ "Transform" \in trace[1].args.before
    /\ ent[Inserted].components.Transform = Transform(5, 5)
    /\ \E e \in DOMAIN ent \ {Inserted} :
           /\ HasTransform(World, e)
           /\ ent[e].components.Transform = Transform(0, 0)

-----------------------------------------------------------------------------
(* A bus whose listeners unsubscribe while it emits: the caller's plain    *)
(* listeners beside one that unsubscribes itself and one that unsubscribes *)
(* another listener                                                        *)

\* the bus the caller uses
MutatedBus == "key_up"

\* the callables the caller subscribes to it
Unsubscribers ==
    {<<"Once", MutatedBus>>} \cup {<<"Drop", MutatedBus, l>> : l \in Listeners}

\* bus.subscribe(l)
SubscribeAny(l) ==
    /\ Len(bus[MutatedBus]) < MaxListeners
    /\ Store(subscribe(Observe(World, "subscribe", <<MutatedBus, l>>,
                               [before |-> bus[MutatedBus]]), MutatedBus, l),
             "subscribe")

NextMutate ==
    \/ \E l \in Listeners \cup Unsubscribers : SubscribeAny(l)
    \/ \E args \in EmitArgs : Emit(MutatedBus, args)

SpecMutate == InitApi /\ [][NextMutate]_vars

\* the number of times the last emit invoked l
Invocations(l) ==
    Cardinality({k \in DOMAIN trace : trace[k].op = "listener" /\ trace[k].who = l})

\* C29: an emit during which listeners unsubscribe invokes every listener
\* that was on the bus when it started and that no one unsubscribed, once
\* for each time it was subscribed
C29_NoListenerSkipped ==
    [][op' = "emit" =>
          \A l \in Range(bus[MutatedBus]) :
              Count(bus'[MutatedBus], l) = Count(bus[MutatedBus], l)
                  => Invocations(l)' = Count(bus[MutatedBus], l)]_vars

\* without an unsubscriber among them, the listeners are all invoked
C29_PlainListeners ==
    [][(op' = "emit" /\ Range(bus[MutatedBus]) \subseteq Listeners) =>
          \A l \in Range(bus[MutatedBus]) :
              Invocations(l)' = Count(bus[MutatedBus], l)]_vars

-----------------------------------------------------------------------------
(* A collision sweep whose listener changes the entities: up to three      *)
(* entities at the same place, with or without a collider, and one         *)
(* listener on the collision bus                                           *)

\* the listeners the caller subscribes to engine.events.collusion
Handlers ==
    {<<"Handler", "set_active">>, <<"Handler", "destroy_entity">>,
     <<"Handler", "collider">>}

\* engine.events.collusion.subscribe(h)
SubscribeHandler(h) ==
    /\ bus["collusion"] = <<>>
    /\ Store(subscribe(World, "collusion", h), "subscribe")

NextSweep ==
    \/ NewEntity
    \/ \E e \in held : SetCollider(e, NewHandle(DOMAIN col))
    \/ \E h \in Handlers : SubscribeHandler(h)
    \/ CollisionUpdate

SpecSweep == InitApi /\ [][NextSweep]_vars

\* the places of the trace where a listener of the caller was entered
HandlerCalls ==
    {j \in DOMAIN trace : trace[j].op = "listener" /\ trace[j].who[1] = "Handler"}

\* the places where a collision event was emitted
CollisionEmits ==
    {k \in DOMAIN trace : trace[k].op = "emit" /\ trace[k].who = "collusion"}

\* C31: an update during which a listener deactivates or destroys an
\* entity, or takes its collider away, does not raise and emits no later
\* event that carries that entity
C31_SweepSeesChanges ==
    op = "update" =>
        /\ raised = NoError
        /\ \A k \in CollisionEmits : \A j \in HandlerCalls :
               j < k => trace[j].args.entity_a
                           \notin {trace[k].args.entity_a, trace[k].args.entity_b}

\* a sweep over entities that no listener changes does not raise
C31_QuietSweep ==
    (op = "update" /\ HandlerCalls = {}) => raised = NoError

\* the sweep raised after a listener took a collider away
C31_Raised ==
    /\ op = "update"
    /\ raised = "AttributeError"
    /\ bus["collusion"] = << <<"Handler", "collider">> >>

-----------------------------------------------------------------------------
(* The scene registry: names registered again with another scene object,   *)
(* before and after they were made active                                  *)

\* the names the client registers and activates, and the scene objects
RegisteredNames == {"main_menu", "roadrunner"}

Registrable == {MM, PH, CR}

\* scene_manager.register_scene(name, scene)
RegisterSceneAs(name, scene) ==
    /\ pc = "setup"
    /\ scenes[name] # scene
    /\ Store(register_scene(World, name, scene), "register_scene")

NextRegistration ==
    \/ \E name \in RegisteredNames, scene \in Registrable : RegisterSceneAs(name, scene)
    \/ \E name \in RegisteredNames : SetActiveScene(name)

SpecRegistration == Init /\ [][NextRegistration]_vars

\* C32: whenever a scene is active, it is the scene object registered
\* under active_scene_name
C32_RegistryConsistency ==
    active_scene # NoScene => active_scene = scenes[active_scene_name]

\* a switch to a name that was registered again before the switch
C32_Reregistered ==
    /\ op = "set_active_scene"
    /\ active_scene_name = "main_menu"
    /\ active_scene = CR

-----------------------------------------------------------------------------
(* Engine.start() without an active scene *)

\* C33: start() called while no scene is active emits nothing, leaves
\* running false and returns; no frame follows it
C33_StartWithoutScene ==
    [][/\ (op' = "start" /\ active_scene = NoScene) =>
            /\ ~running'
            /\ trace' = <<>>
            /\ pc' = "done"
            /\ bus' = bus
            /\ last_tick' = last_tick
       /\ (op = "start" /\ active_scene = NoScene) => op' # "frame"]_vars

\* C33 witness: start() has returned on an engine that has no active scene
C33_Witness ==
    /\ op = "start"
    /\ active_scene = NoScene
    /\ pc = "done"
    /\ ~running

-----------------------------------------------------------------------------
(* The two lists of entities under new_entity, create_entity, add_entity   *)
(* and destroy_entity                                                      *)

\* C34: no entity is twice in engine.entities or twice in a scene's list,
\* and an entity that destroy_entity took from engine.entities is in
\* neither list when the call returns
C34_ListedOnce ==
    /\ \A e \in DOMAIN ent :
           /\ Count(entities, e) <= 1
           /\ \A s \in SceneObjects : Count(scn[s]._entities, e) <= 1
    /\ \A k \in DOMAIN trace :
           trace[k].op = "deactivated" =>
               /\ ~In(trace[k].who[1], entities)
               /\ ~In(trace[k].who[1], scn[ApiScene]._entities)

\* C34 witness: create_entity was given an entity that was in both lists,
\* and it is in both
C34_Witness ==
    /\ op = "create_entity"
    /\ Created # NotAnEntity
    /\ In(Created, Found.entities)
    /\ In(Created, Found.tracked)
    /\ In(Created, entities)
    /\ In(Created, scn[ApiScene]._entities)

\* an entity that was in both lists was destroyed
C34_Destroyed ==
    /\ op = "call"
    /\ \E k \in DOMAIN trace : trace[k].op = "deactivated"
    /\ \E e \in held : ~In(e, entities) /\ ~In(e, scn[ApiScene]._entities)

-----------------------------------------------------------------------------
(* The blackjack table: the player opens Blackjack from the main menu and  *)
(* plays with keys and mouse while ticks arrive; every event is delivered  *)
(* on its bus as process_events and the loop deliver it.                   *)

MaxVisits == 3       \* scene switches of one sitting at the table

\* the keys pressed at the table and in the menu
TableKeys == {"K_RETURN", "K_h", "K_s", "K_ESCAPE"}

\* the clicks: on the two buttons, beside them (where the menu has its
\* Blackjack option), and a right click on the Hit button
TableClicks ==
    {[pos |-> p, button |-> 1] : p \in {"hit_button", "stand_button", "option1"}}
    \cup {[pos |-> "hit_button", button |-> 3]}

\* milliseconds carried by a tick
TableDts == {400}

\* bus.emit(**args) with the random draws r
Deliver(cmd, r) == emit(WithRand(r), cmd.bus, cmd.args)

\* the worlds the emit can end in, over every sequence of draws
RECURSIVE Deliveries(_, _)
ExtendDelivery(cmd, r, res) ==
    IF res.starved THEN UNION {Deliveries(cmd, Append(r, c)) : c \in res.ask}
    ELSE {res}

Deliveries(cmd, r) == ExtendDelivery(cmd, r, Deliver(cmd, r))

\* one event while the menu or the table is shown; the player opens no
\* other scene
TableEventWithin(b, args, visits) ==
    /\ pc = "setup"
    /\ active_scene # NoScene
    /\ \E w \in Deliveries([bus |-> b, args |-> args], <<>>) :
          /\ w.switches <= visits
          /\ w.active_scene \in {MM, BJ}
          /\ Store(Collect(w), b)

NextTable ==
    \/ SetMainMenu
    \/ \E k \in TableKeys : TableEventWithin("key_down", [key |-> k], MaxVisits)
    \/ \E c \in TableClicks : TableEventWithin("mouse_button_down", c, MaxVisits)
    \/ \E dt \in TableDts : TableEventWithin("tick", [dt |-> dt], MaxVisits)

SpecTable == InitApi /\ [][NextTable]_vars

game_state == scn[BJ].game_state

\* the two hands
Hands == <<scn[BJ].player_hand, scn[BJ].dealer_hand>>

\* the transitions of a round
RoundSteps ==
    {<<"PLAYER_TURN", "DEALER_TURN">>, <<"PLAYER_TURN", "ROUND_OVER">>,
     <<"DEALER_TURN", "ROUND_OVER">>, <<"ROUND_OVER", "PLAYER_TURN">>,
     <<"ROUND_OVER", "ROUND_OVER">>}

\* the step ran BlackjackScene.load / BlackjackScene.unload
TableLoaded == \E k \in DOMAIN calls : calls[k].op = "load" /\ calls[k].scene = BJ
TableLeft == \E k \in DOMAIN calls : calls[k].op = "unload" /\ calls[k].scene = BJ

\* the event of the step was the key H or S / a click on one of the buttons
HitStandKey == op = "key_down" /\ trace[1].args.key \in {"K_h", "K_s"}
ButtonClick ==
    /\ op = "mouse_button_down"
    /\ trace[1].args.pos \in {"hit_button", "stand_button"}

IsPrefix(s, t) == Len(s) <= Len(t) /\ SubSeq(t, 1, Len(s)) = s

\* the step dealt a round: a hand is no longer the hand it was with cards
\* appended (and the scene was not unloaded, which empties the hands)
Dealt ==
    /\ ~TableLeft'
    /\ \/ ~IsPrefix(scn[BJ].player_hand, scn'[BJ].player_hand)
       \/ ~IsPrefix(scn[BJ].dealer_hand, scn'[BJ].dealer_hand)

\* C35 as stated: game_state changes only along the five transitions, the
\* keys H and S and clicks on the buttons change no hand and no state unless
\* it is the player's turn, and a round is dealt only from ROUND_OVER
C35_AsListed ==
    [][/\ (game_state' # game_state) => <<game_state, game_state'>> \in RoundSteps
       /\ ((HitStandKey' \/ ButtonClick') /\ game_state # "PLAYER_TURN") =>
              (Hands' = Hands /\ game_state' = game_state)
       /\ Dealt => game_state = "ROUND_OVER"]_vars

\* C35: load puts the scene in DEALING and deals the first round, which
\* ends in PLAYER_TURN or ROUND_OVER; after that game_state changes only
\* along the five transitions.  The keys H and S change no hand and no
\* state unless it is the player's turn, and neither does a click on a
\* button during the dealer's turn; when the round is over a left click
\* anywhere, the buttons included, deals a new round.  Apart from load a
\* round is dealt only from ROUND_OVER.
C35_RoundStateMachine ==
    [][/\ IF TableLoaded' THEN game_state' \in {"PLAYER_TURN", "ROUND_OVER"}
          ELSE (game_state' # game_state) =>
                   <<game_state, game_state'>> \in RoundSteps
       /\ (HitStandKey' /\ game_state # "PLAYER_TURN") =>
              (Hands' = Hands /\ game_state' = game_state)
       /\ (ButtonClick' /\ game_state \in {"DEALER_TURN", "DEALING"}) =>
              (Hands' = Hands /\ game_state' = game_state)
       /\ (/\ ButtonClick' /\ trace'[1].args.button = 1
           /\ game_state = "ROUND_OVER" /\ active_scene = BJ) =>
              /\ game_state' \in {"PLAYER_TURN", "ROUND_OVER"}
              /\ Len(scn'[BJ].player_hand) = 2
              /\ Len(scn'[BJ].dealer_hand) = 2
       /\ (Dealt /\ ~TableLoaded') => game_state = "ROUND_OVER"]_vars

\* C35 witness: the key H or S was pressed during the dealer's turn
C35_Witness ==
    /\ HitStandKey
    /\ active_scene = BJ
    /\ game_state = "DEALER_TURN"
    /\ scn[BJ].dealer_last_action > 0

\* a button was clicked during the dealer's turn
C35_Click ==
    /\ ButtonClick /\ trace[1].args.button = 1
    /\ active_scene = BJ
    /\ game_state = "DEALER_TURN"
    /\ scn[BJ].dealer_last_action > 0

-----------------------------------------------------------------------------
(* The table while ticks keep arriving: the loop emits tick in every frame *)
(* (engine.py lines 52-56)                                                  *)

\* a tick arrives during the dealer's turn.  _update is subscribed to tick
\* by load and never unsubscribed, and in DEALER_TURN it always advances
\* dealer_last_action, so the step is possible in every such state.
\* The second conjunct is true of every step; its first disjunct names one
\* step of this kind outright, which is what the evaluation of ENABLED needs.
DealerTick ==
    /\ game_state = "DEALER_TURN" /\ op' = "tick"
    /\ \/ /\ scn' = [scn EXCEPT ![BJ].dealer_last_action = @ + 1]
          /\ UNCHANGED <<entities, ent, colliders, col, bus, scenes,
                         active_scene, active_scene_name, running, last_tick,
                         pc, held, calls, emitted, switches, made, trace,
                         raised, subs>>
       \/ TRUE

\* the player stays at the table once it is open
StayVisits == 2

NextTicking ==
    \/ SetMainMenu
    \/ \E k \in TableKeys : TableEventWithin("key_down", [key |-> k], StayVisits)
    \/ \E c \in TableClicks : TableEventWithin("mouse_button_down", c, StayVisits)
    \/ \E dt \in TableDts : TableEventWithin("tick", [dt |-> dt], StayVisits)

SpecTicking == InitApi /\ [][NextTicking]_vars /\ WF_vars(DealerTick)

DEALER_STAND_MIN == 17

\* _dealer_play called with the dealer's score at s and nothing drawn yet:
\* it asks the deck for a card (draws) or it does not
DrawsAt(s) ==
    _dealer_play([WithRand(<<>>) EXCEPT !.scn[BJ].dealer_score = s]).starved

\* the dealer's hand grew during the dealer's turn
DealerDrew ==
    /\ game_state = "DEALER_TURN"
    /\ Len(scn'[BJ].dealer_hand) > Len(scn[BJ].dealer_hand)

\* _dealer_play ran with the dealer at 17 or more
DealerActedHigh ==
    /\ game_state = "DEALER_TURN"
    /\ scn[BJ].dealer_score >= DEALER_STAND_MIN
    /\ op' = "tick"
    /\ scn'[BJ].dealer_last_action = 0

C36_Stood ==
    /\ op = "tick"
    /\ game_state = "ROUND_OVER"
    /\ Len(scn[BJ].dealer_hand) = 2
    /\ scn[BJ].dealer_score \in 17..20
    /\ active_scene = BJ

-----------------------------------------------------------------------------
(* The card entities of the table against the two hands *)

\* in the world v each list of card entities is as long as its hand, and
\* every card entity is tracked by the scene and listed by the engine
Synced(v) ==
    /\ Len(v.scn[BJ].player_card_entities) = Len(v.scn[BJ].player_hand)
    /\ Len(v.scn[BJ].dealer_card_entities) = Len(v.scn[BJ].dealer_hand)
    /\ \A lst \in {"player_card_entities", "dealer_card_entities"} :
           \A i \in 1..Len(v.scn[BJ][lst]) :
               /\ In(v.scn[BJ][lst][i], v.entities)
               /\ In(v.scn[BJ][lst][i], v.scn[BJ]._entities)

\* _deal_card(hand) gave the card c, then _update_display()
Displayed(hand, c) ==
    _update_display([World EXCEPT !.scn[BJ][hand] = Append(@, c)])

\* C37: while BlackjackScene is active the card entities match the hands
\* when a handler has returned (each ends with _update_display or changes
\* no hand), and _update_display called after one more card was dealt to
\* either hand makes them match again
C37_DisplaySync ==
    active_scene = BJ =>
        /\ Synced(World)
        /\ \A hand \in {"player_hand", "dealer_hand"} :
               \A c \in {<<"K", "H">>, <<"A", "H">>} :
                   /\ Synced(Displayed(hand, c))
                   /\ Len(Displayed(hand, c).scn[BJ].player_card_entities)
                          + Len(Displayed(hand, c).scn[BJ].dealer_card_entities)
                      = Len(scn[BJ].player_card_entities)
                          + Len(scn[BJ].dealer_card_entities) + 1

\* C37 witness: the player has hit and holds three cards shown by three
\* entities
C37_Witness ==
    /\ active_scene = BJ
    /\ op = "key_down"
    /\ Len(scn[BJ].player_hand) = 3
    /\ Len(scn[BJ].player_card_entities) = 3
    /\ Len(scn[BJ].dealer_card_entities) = 2

-----------------------------------------------------------------------------
(* Snake on a board with room to turn: the player opens Snake from the     *)
(* menu and steers; one or two keys are pressed between two moves.         *)

BoardHeight == 3     \* SnakeScene(grid_height=...) of the board
SnakeClock == 600    \* pygame.time.get_ticks() at the last frame on the board

InitBoard ==
    /\ InitWith([SceneFields EXCEPT ![SN].grid_height = BoardHeight])
    /\ bus = EngineBuses(FALSE, FALSE)

\* the keys pressed in one frame
BoardKeys == {"K_UP", "K_DOWN", "K_LEFT", "K_RIGHT", "K_x", "K_RETURN"}

BoardQueues ==
    {<<>>}
    \cup {<< KeyDown(k) >> : k \in BoardKeys}
    \cup {<< KeyDown(k[1]), KeyDown(k[2]) >> :
             k \in {<<"K_UP", "K_LEFT">>, <<"K_UP", "K_x">>,
                    <<"K_DOWN", "K_x">>, <<"K_UP", "K_DOWN">>}}

\* milliseconds between two frames: update runs twice per tick while Snake
\* is active, so the snake moves once per frame
BoardDts == {100}

\* one iteration of the loop with the menu or Snake shown
BoardFrame(queue, dt) ==
    /\ pc = "loop"
    /\ running
    /\ last_tick + dt <= SnakeClock
    /\ \E w \in Outcomes([op |-> "frame", queue |-> queue,
                          milliseconds |-> last_tick + dt], <<>>) :
          /\ w.active_scene \in {MM, SN}
          /\ Store(Collect(w), "frame")

NextBoard ==
    \/ SetMainMenu
    \/ Start
    \/ \E queue \in BoardQueues, dt \in BoardDts : BoardFrame(queue, dt)

SpecBoard == InitBoard /\ [][NextBoard]_vars

direction == scn[SN].direction
next_direction == scn[SN].next_direction
Opposite(d) == <<-d[1], -d[2]>>

\* the keys of the key_down events of the step, in order
RECURSIVE KeysFrom(_, _)
KeysFrom(t, k) ==
    IF k > Len(t) THEN <<>>
    ELSE IF t[k].op = "emit" /\ t[k].who = "key_down"
    THEN <<t[k].args.key>> \o KeysFrom(t, k + 1)
    ELSE KeysFrom(t, k + 1)

KeysPressed == KeysFrom(trace, 1)

\* the frame began with Snake shown and the game running, and it neither
\* restarted the game nor left the scene
Playing ==
    /\ active_scene = SN /\ active_scene' = SN
    /\ ~scn[SN].is_game_over
    /\ op' = "frame"

\* C38: the direction a move applies is never the opposite of the direction
\* the move before it applied, whatever keys were pressed in between, and
\* next_direction is never the opposite of direction
C38_NeverReverses ==
    /\ [][Playing => direction' # Opposite(direction)]_vars
    /\ [](next_direction # Opposite(direction))

\* C38 witness: LEFT was pressed while the snake went right, and the snake
\* has moved on to the right
C38_Witness ==
    /\ op = "frame" /\ active_scene = SN
    /\ KeysPressed = <<"K_LEFT">>
    /\ direction = RIGHT
    /\ ~scn[SN].is_game_over
    /\ last_tick >= 300

\* UP then LEFT were pressed between two moves while the snake went right:
\* it has turned up
C38_TwoKeys ==
    /\ op = "frame" /\ active_scene = SN
    /\ KeysPressed = <<"K_UP", "K_LEFT">>
    /\ direction = UP
    /\ ~scn[SN].is_game_over
    /\ last_tick >= 300

\* the direction a key asks for
DirectionOf ==
    [k \in {"K_UP", "K_DOWN", "K_LEFT", "K_RIGHT"} |->
        CASE k = "K_UP" -> UP [] k = "K_DOWN" -> DOWN
          [] k = "K_LEFT" -> LEFT [] k = "K_RIGHT" -> RIGHT]

\* C39: a key that is no direction key, not ESC and not a restart key
\* leaves next_direction as it is, and a turn queued before it in the same
\* frame is the direction the next move applies
C39_OtherKeyKeepsTurn ==
    [][/\ (active_scene = SN /\ op' = "frame" /\ KeysPressed' = <<"K_x">>) =>
              next_direction' = next_direction
       /\ \A k \in DOMAIN DirectionOf :
              (/\ Playing
               /\ KeysPressed' = <<k, "K_x">>
               /\ DirectionOf[k] # Opposite(direction)) =>
                  direction' = DirectionOf[k]]_vars

\* a key that is no direction key pressed alone while the snake moves
\* changes nothing: next_direction is direction between two moves
C39_NothingQueued ==
    [][(Playing /\ KeysPressed' = <<"K_x">>) =>
           (next_direction' = next_direction /\ direction' = direction)]_vars

\* the key was pressed alone while the snake moved
C39_Alone ==
    /\ op = "frame" /\ active_scene = SN
    /\ KeysPressed = <<"K_x">>
    /\ ~scn[SN].is_game_over
    /\ last_tick >= 300

\* the grid position of every segment, and of the food
SegmentCells ==
    {GridPos(World, scn[SN].snake_segments[i]) : i \in 1..Len(scn[SN].snake_segments)}

InGrid(cell) ==
    /\ 0 <= cell[1] /\ cell[1] < scn[SN].grid_width
    /\ 0 <= cell[2] /\ cell[2] < scn[SN].grid_height

\* C40: while Snake is loaded every segment is inside the grid, no two
\* segments share a cell unless the game is over, and the food, when there
\* is one, is inside the grid on a cell without a segment
C40_Board ==
    active_scene = SN =>
        /\ \A cell \in SegmentCells : InGrid(cell)
        /\ scn[SN].food_entity # None =>
               /\ InGrid(GridPos(World, scn[SN].food_entity))
               /\ GridPos(World, scn[SN].food_entity) \notin SegmentCells

\* C40 witness: the snake has eaten, is four segments long, and new food
\* lies on the board
C40_Witness ==
    /\ active_scene = SN
    /\ scn[SN].score >= 1
    /\ Len(scn[SN].snake_segments) = 4
    /\ scn[SN].food_entity # None
    /\ ~scn[SN].is_game_over

\* the snake has run into the wall
C40_Wall ==
    /\ active_scene = SN
    /\ scn[SN].is_game_over
    /\ Len(scn[SN].snake_segments) = 3
====
